---- MODULE Spec2Model ----
(***************************************************************************)
(* A model of the history-extraction engine of OWASP Project Metrics:      *)
(*   - the line reader git_cmd of core/git.py (a generator over the        *)
(*     standard output of a child process),                                *)
(*   - the hash resolvers Git.short2long_hash (core/git.py) and            *)
(*     short2long_hash (prometrics.py),                                    *)
(*   - the commit parser Git.commits,                                      *)
(*   - the change parsers Git.changes and get_all_changes,                 *)
(*   - the stat parsers Git.stats and get_all_stats,                       *)
(*   - the report makers to_html5 (repout.py) and info2html5,              *)
(*   - the clone reader clone of core/git.py,                              *)
(*   - the join of changes and stats in get_all_info and to_html5,         *)
(*   - the report driver _main of prometrics-report.py.                    *)
(* Text is a sequence of characters; a character is a one-element string,  *)
(* and a longer string stands for a run of characters that no operation of *)
(* the code ever cuts (a name, a date, a digest).                          *)
(***************************************************************************)
EXTENDS Integers, Sequences, FiniteSets, TLC

VARIABLES
    \* the child process of git_cmd and the generator's frame
    cmd, out, code, stderr, pos, reads, buf, yielded, pc, err, waited, abandoned,
    \* a call of a hash resolver
    short, impl, res, rerr, queries, rpc,
    \* the lines given to Git.commits and the generator's frame
    clines, cidx, in_data, fields, text, last, no_date, emitted, cerr, cpc,
    \* the lines given to a change parser (Git.changes or get_all_changes)
    \* and the generator's frame
    ximpl, xlines, xidx, state, commit, changes, xerr, xpc,
    \* the lines given to a stat parser (Git.stats or get_all_stats) and the
    \* generator's frame
    simpl, slines, sidx, sstate, scommit, s_src_file, s_dst_file, stats, serr, spc,
    \* the commits given to a report maker (to_html5 or info2html5), the
    \* clock, and the aggregates of the maker
    aimpl, commits, now, aidx, apc, aerr, first_commit, weeks, week_start,
    commits_count, hours, week_days, names, authors, inactive_days,
    last_commits, last_authors, commiters, top,
    \* the history given to an aggregation (get_all_info, or the part of
    \* to_html5 that reads changes and stats), the number of times each query
    \* was run, and what the aggregation has built
    jimpl, history, jpc, jerr, calls, info_commits, info_files,
    stats_of_commit, changes_of_commit, last_stats, tot_add, tot_rm,
    \* the repository given to the report driver (what each of its calls
    \* does), and the frame and the files of the driver
    repo, dpc, didx, done_branches, branches_txt, derr, tmp_dir

readerVars == <<cmd, out, code, stderr, pos, reads, buf, yielded, pc, err, waited, abandoned>>
resolverVars == <<short, impl, res, rerr, queries, rpc>>
commitVars == <<clines, cidx, in_data, fields, text, last, no_date, emitted, cerr, cpc>>
changeVars == <<ximpl, xlines, xidx, state, commit, changes, xerr, xpc>>
statVars == <<simpl, slines, sidx, sstate, scommit, s_src_file, s_dst_file, stats, serr, spc>>
reportVars ==
    <<aimpl, commits, now, aidx, apc, aerr, first_commit, weeks, week_start,
      commits_count, hours, week_days, names, authors, inactive_days,
      last_commits, last_authors, commiters, top>>
joinVars ==
    <<jimpl, history, jpc, jerr, calls, info_commits, info_files,
      stats_of_commit, changes_of_commit, last_stats, tot_add, tot_rm>>
driverVars == <<repo, dpc, didx, done_branches, branches_txt, derr, tmp_dir>>
nonReaderVars ==
    <<resolverVars, commitVars, changeVars, statVars, reportVars, joinVars, driverVars>>
nonResolverVars ==
    <<commitVars, changeVars, statVars, reportVars, joinVars, driverVars>>
nonCommitVars ==
    <<readerVars, resolverVars, changeVars, statVars, reportVars, joinVars, driverVars>>
nonChangeVars ==
    <<readerVars, resolverVars, commitVars, statVars, reportVars, joinVars, driverVars>>
nonStatVars ==
    <<readerVars, resolverVars, commitVars, changeVars, reportVars, joinVars, driverVars>>
nonReportVars ==
    <<readerVars, resolverVars, commitVars, changeVars, statVars, joinVars, driverVars>>
nonJoinVars ==
    <<readerVars, resolverVars, commitVars, changeVars, statVars, reportVars, driverVars>>
nonDriverVars ==
    <<readerVars, resolverVars, commitVars, changeVars, statVars, reportVars, joinVars>>
vars ==
    <<readerVars, resolverVars, commitVars, changeVars, statVars, reportVars, joinVars, driverVars>>

(* ------------------------------ bounds --------------------------------- *)

\* longest standard output of the child, in bytes
MaxOut == 4

\* most bytes of one read: BUFSIZE of git.py, which is 4096 there, taken
\* small here so that an output of MaxOut bytes is longer than one chunk
BUFSIZE == 2

(* ----------------------------- constants ------------------------------- *)

EOL == "\n"
eol_len == 1
\* a byte that is no valid UTF-8, and what decode(errors='replace') makes of it
BadByte == "xFF"
Replacement == "uFFFD"
None == <<"None">>
NoErr == [type |-> "none"]

(* ------------------------- text, as Python has it ---------------------- *)

Min(a, b) == IF a < b THEN a ELSE b

Last(s) == s[Len(s)]

Front(s) == SubSeq(s, 1, Len(s) - 1)

\* s[a:b] of Python, 0 <= a, b
Slice(s, a, b) == SubSeq(s, a + 1, Min(b, Len(s)))

\* s[a:] of Python, 0 <= a
SliceFrom(s, a) == SubSeq(s, a + 1, Len(s))

SeqsUpTo(S, n) == UNION {[1..k -> S] : k \in 0..n}

\* str.find(c) for a character c: the 0-based index of the first c, or -1
find_last(s, c) ==
    IF \E i \in 1..Len(s) : s[i] = c
    THEN (CHOOSE i \in 1..Len(s) : s[i] = c /\ \A j \in (i+1)..Len(s) : s[j] # c) - 1
    ELSE -1

find(s, c) ==
    IF \E i \in 1..Len(s) : s[i] = c
    THEN (CHOOSE i \in 1..Len(s) : s[i] = c /\ \A j \in 1..(i-1) : s[j] # c) - 1
    ELSE -1

\* bytes.decode('utf-8', errors='replace')
decode(s) == [i \in 1..Len(s) |-> IF s[i] = BadByte THEN Replacement ELSE s[i]]

\* str.endswith
endswith(s, suffix) ==
    /\ Len(suffix) <= Len(s)
    /\ SubSeq(s, Len(s) - Len(suffix) + 1, Len(s)) = suffix

\* str.startswith
startswith(s, prefix) ==
    /\ Len(prefix) <= Len(s)
    /\ SubSeq(s, 1, Len(prefix)) = prefix

\* str.split(sep) for a character sep
RECURSIVE split(_, _)
split(s, sep) ==
    LET i == find(s, sep)
    IN IF i < 0 THEN <<s>> ELSE <<Slice(s, 0, i)>> \o split(SliceFrom(s, i + 1), sep)

\* sep.join(parts) for a character sep
RECURSIVE join(_, _)
join(sep, parts) ==
    IF parts = <<>> THEN <<>>
    ELSE IF Len(parts) = 1 THEN parts[1]
    ELSE parts[1] \o <<sep>> \o join(sep, Tail(parts))

Whitespace == {" ", "\t", "\r", EOL}

\* str.strip()
RECURSIVE lstrip(_, _)
lstrip(s, chars) ==
    IF s # <<>> /\ Head(s) \in chars THEN lstrip(Tail(s), chars) ELSE s

RECURSIVE rstrip(_, _)
rstrip(s, chars) ==
    IF s # <<>> /\ Last(s) \in chars THEN rstrip(Front(s), chars) ELSE s

strip(s) == lstrip(rstrip(s, Whitespace), Whitespace)

(* --------------------------- errors of git.py -------------------------- *)

NeededSingleRevision == <<"Needed a single revision", EOL>>

GitCmdError(c, rc, e) == [type |-> "GitCmdError", cmd |-> c, code |-> rc, stderr |-> e]

\* UnreachableObject.__init__ sets obj alone
UnreachableObject(obj) == [type |-> "UnreachableObject", obj |-> obj]

raise_git_error_generic(c, rc, e) == GitCmdError(c, rc, e)

raise_git_error(c, rc, e) ==
    IF endswith(e, NeededSingleRevision)
    THEN UnreachableObject(Last(c))
    ELSE GitCmdError(c, rc, e)

(* ------------------------------ git_cmd -------------------------------- *)

\* p.stdout.read(BUFSIZE): at least one byte unless the stream has ended
ChunkSizes == IF pos = Len(out) THEN {0} ELSE 1..Min(BUFSIZE, Len(out) - pos)

Chunk(k) == SubSeq(out, pos + 1, pos + k)

git_cmd_prefix == <<"git", "--git-dir", "--work-tree">>

\* the first next(): Popen and the first read
Start ==
    /\ pc = "start"
    /\ \E k \in ChunkSizes :
        /\ buf' = Chunk(k)
        /\ pos' = pos + k
        /\ reads' = Append(reads, k)
    /\ pc' = "loop"
    /\ UNCHANGED <<cmd, out, code, stderr, yielded, err, waited, abandoned>>

\* while buf: false
WhileExit ==
    /\ pc = "loop"
    /\ buf = <<>>
    /\ pc' = "finally"
    /\ UNCHANGED <<cmd, out, code, stderr, pos, reads, buf, yielded, err, waited, abandoned>>

\* a newline in buf: yield buf[:eol]
YieldLine ==
    /\ pc = "loop"
    /\ buf # <<>>
    /\ find(buf, EOL) >= 0
    /\ yielded' = Append(yielded, decode(Slice(buf, 0, find(buf, EOL))))
    /\ pc' = "yield_line"
    /\ UNCHANGED <<cmd, out, code, stderr, pos, reads, buf, err, waited, abandoned>>

\* no newline in buf: read on, and at the end of the stream yield the tail
ReadMore ==
    /\ pc = "loop"
    /\ buf # <<>>
    /\ find(buf, EOL) < 0
    /\ \E k \in ChunkSizes :
        LET _buf == Chunk(k)
        IN /\ pos' = pos + k
           /\ reads' = Append(reads, k)
           /\ IF _buf = <<>>
              THEN /\ yielded' = Append(yielded, decode(buf))
                   /\ pc' = "yield_tail"
                   /\ buf' = buf
              ELSE /\ buf' = buf \o _buf
                   /\ pc' = "loop"
                   /\ yielded' = yielded
    /\ UNCHANGED <<cmd, out, code, stderr, err, waited, abandoned>>

\* next() at the yield of a line: drop the line, read when nothing is left
ResumeLine ==
    /\ pc = "yield_line"
    /\ LET rest == SliceFrom(buf, find(buf, EOL) + eol_len)
       IN IF rest # <<>>
          THEN /\ buf' = rest
               /\ UNCHANGED <<pos, reads>>
          ELSE \E k \in ChunkSizes :
                /\ buf' = Chunk(k)
                /\ pos' = pos + k
                /\ reads' = Append(reads, k)
    /\ pc' = "loop"
    /\ UNCHANGED <<cmd, out, code, stderr, yielded, err, waited, abandoned>>

\* next() at the yield of the tail: raise StopIteration
ResumeTail ==
    /\ pc = "yield_tail"
    /\ pc' = "finally"
    /\ UNCHANGED <<cmd, out, code, stderr, pos, reads, buf, yielded, err, waited, abandoned>>

\* close() at a yield (the consumer abandons the sequence): GeneratorExit
Close ==
    /\ pc \in {"yield_line", "yield_tail"}
    /\ abandoned' = TRUE
    /\ pc' = "finally"
    /\ UNCHANGED <<cmd, out, code, stderr, pos, reads, buf, yielded, err, waited>>

\* finally: communicate() reads what is left and waits, then the exit status
Finally ==
    /\ pc = "finally"
    /\ pos' = Len(out)
    /\ waited' = TRUE
    /\ err' = IF code # 0 THEN raise_git_error(cmd, code, stderr) ELSE NoErr
    /\ pc' = "done"
    /\ UNCHANGED <<cmd, out, code, stderr, reads, buf, yielded, abandoned>>

(* ------------------------------- clone --------------------------------- *)

\* the text at which clone gives up: git asks for a login
UsernameFor == "Username for"

\* the first next() of clone: Popen and the first read
CloneStart ==
    /\ pc = "start"
    /\ \E k \in ChunkSizes :
        /\ buf' = Chunk(k)
        /\ pos' = pos + k
    /\ pc' = "loop"
    /\ UNCHANGED <<cmd, out, code, stderr, reads, yielded, err, waited, abandoned>>

\* while buf: false
CloneWhileExit ==
    /\ pc = "loop"
    /\ buf = <<>>
    /\ pc' = "finally"
    /\ UNCHANGED <<cmd, out, code, stderr, pos, reads, buf, yielded, err, waited, abandoned>>

\* no newline in buf: p.stdout.read(BUFSIZE) is called
CloneCallRead ==
    /\ pc = "loop"
    /\ buf # <<>>
    /\ find(buf, EOL) < 0
    /\ pc' = "read"
    /\ UNCHANGED <<cmd, out, code, stderr, pos, reads, buf, yielded, err, waited, abandoned>>

\* the read returns _buf; the test that follows is on buf, not on _buf, and
\* buf is not empty inside the loop
CloneReadReturns ==
    /\ pc = "read"
    /\ \E k \in ChunkSizes :
        LET _buf == Chunk(k)
        IN /\ pos' = pos + k
           /\ IF buf = <<>>
              THEN /\ yielded' = Append(yielded, buf)
                   /\ pc' = "yield_tail"
                   /\ buf' = buf
              ELSE /\ buf' = buf \o _buf
                   /\ pc' = "loop"
                   /\ yielded' = yielded
    /\ UNCHANGED <<cmd, out, code, stderr, reads, err, waited, abandoned>>

\* a newline in buf: raise when git asks for a login, else yield buf[:eol];
\* NeedUsernamePassword inherits __init__(cmd, code, stderr) and is given
\* one argument, so what is raised is TypeError
CloneYieldLine ==
    /\ pc = "loop"
    /\ buf # <<>>
    /\ find(buf, EOL) >= 0
    /\ IF \E i \in 1..Len(buf) : buf[i] = UsernameFor
       THEN /\ err' = [type |-> "TypeError"]
            /\ pc' = "finally"
            /\ yielded' = yielded
       ELSE /\ yielded' = Append(yielded, Slice(buf, 0, find(buf, EOL)))
            /\ pc' = "yield_line"
            /\ err' = err
    /\ UNCHANGED <<cmd, out, code, stderr, pos, reads, buf, waited, abandoned>>

\* next() at a yield: after a line, drop the line and read when nothing is
\* left; after the tail, raise StopIteration
CloneResume ==
    /\ pc \in {"yield_line", "yield_tail"}
    /\ IF pc = "yield_tail"
       THEN /\ pc' = "finally"
            /\ UNCHANGED <<buf, pos>>
       ELSE /\ pc' = "loop"
            /\ LET rest == SliceFrom(buf, find(buf, EOL) + eol_len)
               IN IF rest # <<>>
                  THEN /\ buf' = rest
                       /\ pos' = pos
                  ELSE \E k \in ChunkSizes :
                        /\ buf' = Chunk(k)
                        /\ pos' = pos + k
    /\ UNCHANGED <<cmd, out, code, stderr, reads, yielded, err, waited, abandoned>>

\* finally: communicate(), then GitCmdError on an exit status that is not
\* zero; else the error raised in the loop, if any, goes on
CloneFinally ==
    /\ pc = "finally"
    /\ pos' = Len(out)
    /\ waited' = TRUE
    /\ err' = IF code # 0 THEN GitCmdError(cmd, code, stderr) ELSE err
    /\ pc' = "done"
    /\ UNCHANGED <<cmd, out, code, stderr, reads, buf, yielded, abandoned>>

(* ----------------------- what a child may do -------------------------- *)

Byte == {"a", EOL, BadByte}

ExitCodes == {0, 1, 128}

StderrTexts == {<<>>, <<"fatal: bad object", EOL>>, <<"fatal: ">> \o NeededSingleRevision}

(* --------------------------- hash resolvers ---------------------------- *)

\* longest run of zeros given to a resolver
MaxZeros == 9

Zeros(n) == [i \in 1..n |-> "0"]

NULL_HASH == Zeros(40)

\* the object name rev-parse prints, 40 characters never cut
FullHash == "9fceb02d0ae598e95dc970b74767f19372d61af8"

Shorts ==
    {Zeros(n) : n \in 6..MaxZeros}
        \cup {Zeros(6) \o <<"a">>, <<"a", "b", "c", "1", "2", "3", "4">>}

\* rev-parse --verify prints the one object name and exits 0, or prints
\* nothing on its standard output, says why on its standard error and exits
\* with a status that is not zero
RevParseRuns ==
    {[out |-> <<FullHash, EOL>>, code |-> 0, stderr |-> <<>>]}
        \cup {[out |-> <<>>, code |-> c, stderr |-> e] :
                c \in ExitCodes \ {0}, e \in StderrTexts \ {<<>>}}

\* GitError of prometrics.py
GitError(rc, o, e) == [type |-> "GitError", code |-> rc, stdout |-> o, stderr |-> e]

\* the test of short2long_hash (prometrics.py) for the pseudo-hash of an
\* absent endpoint, and the test of Git.short2long_hash
pm_is_null_short(s) == s = Zeros(7)

is_null_short(s) == Len(s) >= 7 /\ \A i \in 1..Len(s) : s[i] = "0"

\* Git.short2long_hash: the sentinel, or git_out('rev-parse', '--verify', short).next()
GitResolveCall ==
    /\ rpc = "call"
    /\ impl = "Git"
    /\ IF is_null_short(short)
       THEN /\ res' = NULL_HASH
            /\ rpc' = "returned"
            /\ UNCHANGED <<queries, cmd>>
       ELSE /\ queries' = queries + 1
            /\ cmd' = git_cmd_prefix \o <<"rev-parse", "--verify", short>>
            /\ rpc' = "next"
            /\ res' = res
    /\ UNCHANGED <<short, impl, rerr>>
    /\ UNCHANGED <<out, code, stderr, pos, reads, buf, yielded, pc, err, waited, abandoned>>

\* next() returns the first line: .strip() of it is the result
GitResolveTake ==
    /\ rpc = "next"
    /\ pc \in {"yield_line", "yield_tail"}
    /\ res' = strip(Last(yielded))
    /\ rpc' = "returned"
    /\ UNCHANGED <<short, impl, rerr, queries>>
    /\ UNCHANGED readerVars

\* next() on a generator that ends without a line: its error, or StopIteration
GitResolveRaise ==
    /\ rpc = "next"
    /\ pc = "done"
    /\ rerr' = IF err # NoErr THEN err ELSE [type |-> "StopIteration"]
    /\ rpc' = "raised"
    /\ UNCHANGED <<short, impl, res, queries>>
    /\ UNCHANGED readerVars

\* short2long_hash of prometrics.py: the sentinel, or rev-parse and communicate()
PmResolve ==
    /\ rpc = "call"
    /\ impl = "prometrics"
    /\ IF pm_is_null_short(short)
       THEN /\ res' = Zeros(40)
            /\ rpc' = "returned"
            /\ UNCHANGED <<queries, rerr>>
       ELSE /\ queries' = queries + 1
            /\ IF code # 0
               THEN /\ rerr' = GitError(code, out, stderr)
                    /\ rpc' = "raised"
                    /\ res' = res
               ELSE /\ res' = strip(out)
                    /\ rpc' = "returned"
                    /\ rerr' = rerr
    /\ UNCHANGED <<short, impl>>
    /\ UNCHANGED readerVars

(* ---------------------------- Git.commits ------------------------------ *)

\* most lines of a commit stream
MaxLines == 4

NUL == "x00"

\* fields is None
NoFields == <<>>

\* last is None
NoCommit == [type |-> "None"]

rfind(s, c) ==
    IF \E i \in 1..Len(s) : s[i] = c
    THEN (CHOOSE i \in 1..Len(s) : s[i] = c /\ \A j \in (i+1)..Len(s) : s[j] # c) - 1
    ELSE -1

\* str.rpartition(sep)[0]
rpartition_head(s, sep) == IF rfind(s, sep) < 0 THEN <<>> ELSE Slice(s, 0, rfind(s, sep))

Days == {"2024-01-01", "2024-01-08", "2024-01-20"}

Times == {"10:00:00", "11:30:00", "23:59:59"}

ValueError == <<"ValueError">>

\* datetime.strptime(dt, '%Y-%m-%d %H:%M:%S')
strptime(dt) ==
    IF Len(dt) = 3 /\ dt[1] \in Days /\ dt[2] = " " /\ dt[3] \in Times
    THEN <<"datetime", dt[1], dt[3]>>
    ELSE ValueError

\* a date field of a header: None when empty, else the date without its zone
parse_date(f) == IF f # <<>> THEN strptime(rpartition_head(f, " ")) ELSE None

Commit(f) ==
    [hash |-> f[1], tree |-> f[2], parent |-> f[3],
     author_name |-> f[4], author_email |-> f[5], author_date |-> f[6],
     commiter_name |-> f[7], commiter_email |-> f[8], commiter_date |-> f[9],
     subject |-> f[10], text |-> f[11]]

is_invalid(f) == \E i \in 1..Len(f) : f[i] = None

restore_commit_author_only(cmt, l) ==
    Commit([cmt EXCEPT ![6] = IF @ = None THEN l.author_date ELSE @])

restore_commit(cmt, l) ==
    Commit([cmt EXCEPT ![6] = IF @ = None THEN l.author_date ELSE @,
                       ![9] = IF @ = None THEN l.commiter_date ELSE @])

header_ok_at_least(f) == Len(f) >= 12

\* len(fields) != 12 raises GitFormatError
header_ok(f) == Len(f) = 12

commit_fields_spaced(f, t) == SubSeq(f, 2, Len(f) - 1) \o <<join(" ", t)>>

\* fields[1:-1] and the joined text
commit_fields(f, t) == SubSeq(f, 2, Len(f) - 1) \o <<join(EOL, t)>>

\* while no_date: c = no_date.pop(); yield restore_commit(c, last)
flush(nd, l) == [i \in 1..Len(nd) |-> restore_commit(nd[Len(nd) + 1 - i], l)]

\* a commit is complete: buffer it when a date is missing, else yield what
\* is buffered (when there is a last commit) and then the commit
finish_commit(f, t, l, nd) ==
    LET cf == commit_fields(f, t)
    IN IF is_invalid(cf)
       THEN [yield |-> <<>>, last |-> l, no_date |-> Append(nd, cf)]
       ELSE [yield |-> (IF l # NoCommit THEN flush(nd, l) ELSE <<>>) \o <<Commit(cf)>>,
             last |-> Commit(cf),
             no_date |-> IF l # NoCommit THEN <<>> ELSE nd]

\* the header of the line: the split fields with the two dates parsed
header_fields(line) ==
    LET f == split(line, NUL)
    IN [f EXCEPT ![7] = parse_date(f[7]), ![10] = parse_date(f[10])]

\* one turn of the for loop of Git.commits
CommitsLine ==
    /\ cpc = "loop"
    /\ cidx < Len(clines)
    /\ LET line == clines[cidx + 1]
           closes == in_data = 1 /\ startswith(line, <<NUL>>)
           done == IF closes THEN finish_commit(fields, text, last, no_date)
                   ELSE [yield |-> <<>>, last |-> last, no_date |-> no_date]
           is_header == in_data = 0 \/ closes
       IN /\ cidx' = cidx + 1
          /\ emitted' = emitted \o done.yield
          /\ last' = done.last
          /\ no_date' = done.no_date
          /\ IF ~is_header
             THEN /\ text' = Append(text, line)
                  /\ UNCHANGED <<fields, in_data, cerr, cpc>>
             ELSE /\ text' = <<>>
                  /\ IF ~header_ok(split(line, NUL))
                     THEN /\ fields' = split(line, NUL)
                          /\ in_data' = 0
                          /\ cerr' = [type |-> "GitFormatError", line |-> line]
                          /\ cpc' = "failed"
                     ELSE IF ValueError \in {header_fields(line)[7], header_fields(line)[10]}
                     THEN /\ fields' = split(line, NUL)
                          /\ in_data' = 0
                          /\ cerr' = [type |-> "ValueError"]
                          /\ cpc' = "failed"
                     ELSE /\ fields' = header_fields(line)
                          /\ in_data' = 1
                          /\ UNCHANGED <<cerr, cpc>>
    /\ UNCHANGED clines

\* the end of the lines: git_cmd raises on an exit status that is not zero,
\* else the last commit is completed and what is buffered is yielded
CommitsEnd ==
    /\ cpc = "loop"
    /\ cidx = Len(clines)
    /\ IF code # 0
       THEN /\ cerr' = raise_git_error(cmd, code, stderr)
            /\ cpc' = "failed"
            /\ UNCHANGED <<fields, last, no_date, emitted>>
       ELSE LET done == IF fields # NoFields
                        THEN finish_commit(fields, text, last, no_date)
                        ELSE [yield |-> <<>>, last |-> last, no_date |-> no_date]
            IN /\ fields' = IF fields # NoFields THEN commit_fields(fields, text) ELSE fields
               /\ last' = done.last
               /\ emitted' = emitted \o done.yield
                                \o (IF done.last # NoCommit THEN flush(done.no_date, done.last) ELSE <<>>)
               /\ no_date' = IF done.last # NoCommit THEN <<>> ELSE done.no_date
               /\ cpc' = "done"
               /\ cerr' = cerr
    /\ UNCHANGED <<clines, cidx, in_data, text>>

(* ------------------ Git.changes and get_all_changes -------------------- *)

\* most lines of a change stream
MaxChangeLines == 3

STATUS_ADD == "A"
STATUS_COPY == "C"
STATUS_DELETE == "D"
STATUS_MODIFICATION == "M"
STATUS_RENAME == "R"
STATUS_CHANGE_TYPE == "T"
STATUS_UNMERGED == "U"
STATUS_UNKNOWN == "X"

CH_ST_START == 1
CH_ST_COMMIT == 2
CH_ST_NEXT_CHANGE == 3

\* the abbreviated object names the repository cannot resolve
UnknownShorts == {<<"bad9999">>}

\* what rev-parse --verify does for a name: see RevParseRuns
rev_parse(s) ==
    IF s \in UnknownShorts
    THEN [out |-> <<>>, code |-> 128, stderr |-> <<"fatal: ">> \o NeededSingleRevision]
    ELSE [out |-> s \o <<"+33", EOL>>, code |-> 0, stderr |-> <<>>]

\* the first line git_cmd yields for an output that is not empty
first_line(o) == decode(IF find(o, EOL) >= 0 THEN Slice(o, 0, find(o, EOL)) ELSE o)

\* Git.short2long_hash as a whole: the value, or the error git_cmd raises
git_short2long_hash(s) ==
    IF is_null_short(s) THEN [ok |-> TRUE, value |-> NULL_HASH]
    ELSE LET run == rev_parse(s)
         IN IF run.code # 0
            THEN [ok |-> FALSE,
                  err |-> raise_git_error(git_cmd_prefix \o <<"rev-parse", "--verify", s>>,
                                          run.code, run.stderr)]
            ELSE [ok |-> TRUE, value |-> strip(first_line(run.out))]

\* short2long_hash of prometrics.py as a whole
pm_short2long_hash(s) ==
    IF pm_is_null_short(s) THEN [ok |-> TRUE, value |-> Zeros(40)]
    ELSE LET run == rev_parse(s)
         IN IF run.code # 0
            THEN [ok |-> FALSE, err |-> GitError(run.code, run.out, run.stderr)]
            ELSE [ok |-> TRUE, value |-> strip(run.out)]

\* str.partition(sep): the text before the first sep, and the text after it
partition_head(s, sep) == IF find(s, sep) < 0 THEN s ELSE Slice(s, 0, find(s, sep))

partition_tail(s, sep) == IF find(s, sep) < 0 THEN <<>> ELSE SliceFrom(s, find(s, sep) + 1)

Change(c, sm, sh, dm, dh, st, pe, sf, df) ==
    [commit |-> c, src_mode |-> sm, src_hash |-> sh, dst_mode |-> dm, dst_hash |-> dh,
     status |-> st, percentage |-> pe, src_file |-> sf, dst_file |-> df]

\* Change of prometrics.py
PmChange(c, sm, dm, sh, dh, st, sc, sf, df) ==
    [commit_hash |-> c, src_mode |-> sm, dst_mode |-> dm, src_hash |-> sh, dst_hash |-> dh,
     status |-> st, score |-> sc, src_file |-> sf, dst_file |-> df]

Raise(t) == [kind |-> "raise", err |-> [type |-> t]]

\* the text in which Git.changes looks for the status: the fields joined
\* again, which is the line
git_finfo(flds) == join(" ", flds)

\* what Git.changes does with a line that is no marker: "skip", "raise" with
\* the error, or "yield" with the Change
git_change_of(line, cmt) ==
    LET flds == split(line, " ")
    IN IF Len(flds) < 4 THEN Raise("ValueError")
       ELSE
       LET src_mode == flds[1]
           dst_mode == flds[2]
           finfo == git_finfo(flds)
           src_hash == git_short2long_hash(rstrip(flds[3], {"."}))
           dst_hash == git_short2long_hash(rstrip(flds[4], {"."}))
           segment == partition_head(finfo, "\t")
           files == partition_tail(finfo, "\t")
       IN IF ~src_hash.ok THEN [kind |-> "raise", err |-> src_hash.err]
          ELSE IF ~dst_hash.ok THEN [kind |-> "raise", err |-> dst_hash.err]
          ELSE IF segment = <<>> THEN Raise("IndexError")
          ELSE
          LET status == segment[1]
              rest == SliceFrom(<<status>>, 1)
              perc == IF rest = <<>> THEN None ELSE rest
              paths == split(files, "\t")
              two == status \in {STATUS_RENAME, STATUS_COPY, STATUS_UNMERGED}
              src_file == IF status = STATUS_ADD THEN None
                          ELSE IF two THEN paths[1] ELSE files
              dst_file == IF status = STATUS_DELETE THEN None
                          ELSE IF two THEN paths[2] ELSE files
          IN IF status \notin {STATUS_ADD, STATUS_DELETE, STATUS_MODIFICATION,
                               STATUS_CHANGE_TYPE, STATUS_RENAME, STATUS_COPY,
                               STATUS_UNMERGED}
             THEN [kind |-> "skip"]
             ELSE IF two /\ Len(paths) # 2 THEN Raise("ValueError")
             ELSE IF cmt = None THEN Raise("UnboundLocalError")
             ELSE [kind |-> "yield",
                   change |-> Change(cmt, lstrip(src_mode, {":"}), src_hash.value,
                                     lstrip(dst_mode, {":"}), dst_hash.value,
                                     status, perc, src_file, dst_file)]

\* one turn of the for loop of Git.changes
GitChangesLine ==
    /\ ximpl = "Git"
    /\ xpc = "loop"
    /\ xidx < Len(xlines)
    /\ xidx' = xidx + 1
    /\ LET line == xlines[xidx + 1]
       IN IF line = <<>> THEN UNCHANGED <<commit, changes, xerr, xpc>>
          ELSE IF startswith(line, <<NUL>>)
          THEN /\ commit' = split(line, NUL)[2]
               /\ UNCHANGED <<changes, xerr, xpc>>
          ELSE LET r == git_change_of(line, commit)
               IN /\ commit' = commit
                  /\ changes' = IF r.kind = "yield" THEN Append(changes, r.change) ELSE changes
                  /\ xerr' = IF r.kind = "raise" THEN r.err ELSE xerr
                  /\ xpc' = IF r.kind = "raise" THEN "failed" ELSE xpc
    /\ UNCHANGED <<ximpl, xlines, state>>

\* the end of the lines of Git.changes: git_cmd raises on a failed child
GitChangesEnd ==
    /\ ximpl = "Git"
    /\ xpc = "loop"
    /\ xidx = Len(xlines)
    /\ IF code # 0
       THEN /\ xerr' = raise_git_error(cmd, code, stderr)
            /\ xpc' = "failed"
       ELSE /\ xerr' = xerr
            /\ xpc' = "done"
    /\ UNCHANGED <<ximpl, xlines, xidx, state, commit, changes>>

\* rm_prefix of prometrics.py
rm_prefix(s, prefix) == IF startswith(s, prefix) THEN SliceFrom(s, Len(prefix)) ELSE s

Numerals == {"20", "86", "100"}

\* int(s) for a decimal numeral
int(s) == IF Len(s) = 1 /\ s[1] \in Numerals THEN <<"int", s[1]>> ELSE ValueError

\* what get_all_changes does with a change line
pm_change_of(line, commit_hash) ==
    LET flds == split(line, " ")
    IN IF Len(flds) < 4 THEN Raise("ValueError")
       ELSE
       LET op == join(" ", SubSeq(flds, 5, Len(flds)))
           src_mode == rm_prefix(flds[1], <<":">>)
           dst_mode == flds[2]
           hash_src == pm_short2long_hash(rstrip(flds[3], {"."}))
           hash_dst == pm_short2long_hash(rstrip(flds[4], {"."}))
       IN IF ~hash_src.ok THEN [kind |-> "raise", err |-> hash_src.err]
          ELSE IF ~hash_dst.ok THEN [kind |-> "raise", err |-> hash_dst.err]
          ELSE IF op = <<>> THEN Raise("IndexError")
          ELSE
          LET status == op[1]
              parts == split(SliceFrom(op, 1), "\t")
          IN IF status \in {STATUS_ADD, STATUS_DELETE, STATUS_CHANGE_TYPE,
                            STATUS_UNMERGED, STATUS_UNKNOWN}
             THEN [kind |-> "yield",
                   change |-> PmChange(commit_hash, src_mode, dst_mode, hash_src.value,
                                       hash_dst.value, status, None,
                                       SliceFrom(op, 2), SliceFrom(op, 2))]
             ELSE IF status = STATUS_MODIFICATION
             THEN IF Len(parts) # 2 THEN Raise("ValueError")
                  ELSE IF parts[1] # <<>> /\ int(parts[1]) = ValueError THEN Raise("ValueError")
                  ELSE [kind |-> "yield",
                        change |-> PmChange(commit_hash, src_mode, dst_mode, hash_src.value,
                                            hash_dst.value, status,
                                            IF parts[1] # <<>> THEN int(parts[1]) ELSE None,
                                            parts[2], parts[2])]
             ELSE IF status \in {STATUS_RENAME, STATUS_COPY}
             THEN IF Len(parts) # 3 \/ int(parts[1]) = ValueError THEN Raise("ValueError")
                  ELSE [kind |-> "yield",
                        change |-> PmChange(commit_hash, src_mode, dst_mode, hash_src.value,
                                            hash_dst.value, status, int(parts[1]),
                                            parts[2], parts[3])]
             ELSE Raise("Exception")

\* get_all_changes up to its loop: communicate() and the exit status
PmChangesOpen ==
    /\ ximpl = "prometrics"
    /\ xpc = "open"
    /\ IF code # 0
       THEN /\ xerr' = GitError(code, out, stderr)
            /\ xpc' = "failed"
       ELSE /\ xerr' = xerr
            /\ xpc' = "loop"
    /\ UNCHANGED <<ximpl, xlines, xidx, state, commit, changes>>

\* one turn of the for loop of get_all_changes
PmChangesLine ==
    /\ ximpl = "prometrics"
    /\ xpc = "loop"
    /\ xidx < Len(xlines)
    /\ xidx' = xidx + 1
    /\ LET line == strip(xlines[xidx + 1])
       IN IF state = CH_ST_START
          THEN /\ state' = IF line = <<"{">> THEN CH_ST_COMMIT ELSE state
               /\ UNCHANGED <<commit, changes, xerr, xpc>>
          ELSE IF state = CH_ST_COMMIT
          THEN IF startswith(line, <<"/C01/">>)
               THEN /\ commit' = strip(rm_prefix(line, <<"/C01/">>))
                    /\ state' = CH_ST_NEXT_CHANGE
                    /\ UNCHANGED <<changes, xerr, xpc>>
               ELSE /\ xerr' = [type |-> "Exception"]
                    /\ xpc' = "failed"
                    /\ UNCHANGED <<commit, changes, state>>
          ELSE IF line = <<"/W12/">>
          THEN UNCHANGED <<state, commit, changes, xerr, xpc>>
          ELSE IF line = <<>>
          THEN /\ state' = CH_ST_START
               /\ UNCHANGED <<commit, changes, xerr, xpc>>
          ELSE LET r == pm_change_of(line, commit)
               IN /\ changes' = IF r.kind = "yield" THEN Append(changes, r.change) ELSE changes
                  /\ xerr' = IF r.kind = "raise" THEN r.err ELSE xerr
                  /\ xpc' = IF r.kind = "raise" THEN "failed" ELSE xpc
                  /\ UNCHANGED <<state, commit>>
    /\ UNCHANGED <<ximpl, xlines>>

\* the end of the lines of get_all_changes
PmChangesEnd ==
    /\ ximpl = "prometrics"
    /\ xpc = "loop"
    /\ xidx = Len(xlines)
    /\ xpc' = "done"
    /\ UNCHANGED <<ximpl, xlines, xidx, state, commit, changes, xerr>>

(* ------------------- Git.stats and get_all_stats ----------------------- *)

\* most lines of a stat stream
MaxStatLines == 3

STAT_ST_START == 1
STAT_ST_COMMIT == 2
STAT_ST_NEXT_STAT == 3

Arrow == <<" ", "=", ">", " ">>

\* a local variable that has no value yet
Unbound == <<"unbound">>

\* str.find(sub) for a text sub that is not empty
find_str(s, sub) ==
    LET at == {i \in 1..(Len(s) - Len(sub) + 1) : SubSeq(s, i, i + Len(sub) - 1) = sub}
    IN IF at = {} THEN -1 ELSE (CHOOSE i \in at : \A j \in at : i <= j) - 1

\* str.partition(sep) for a text sep: head, whether sep was found, tail
partition_str(s, sep) ==
    LET i == find_str(s, sep)
    IN IF i < 0 THEN [head |-> s, sep |-> FALSE, tail |-> <<>>]
       ELSE [head |-> Slice(s, 0, i), sep |-> TRUE, tail |-> SliceFrom(s, i + Len(sep))]

\* str.replace(old, new) for a two-character old and a one-character new
RECURSIVE replace(_, _, _)
replace(s, old, new) ==
    IF Len(s) < 2 THEN s
    ELSE IF SubSeq(s, 1, 2) = old THEN new \o replace(SliceFrom(s, 2), old, new)
    ELSE <<Head(s)>> \o replace(Tail(s), old, new)

Digits == {"0", "1", "2", "3", "4", "5", "6", "7", "8", "9"}

DigitValue(d) == CHOOSE n \in 0..9 : ToString(n) = d

\* str.isdigit()
isdigit(s) == s # <<>> /\ \A i \in 1..Len(s) : s[i] \in Digits

\* int(s) for a text of digits
RECURSIVE int_of(_)
int_of(s) == IF s = <<>> THEN 0 ELSE 10 * int_of(Front(s)) + DigitValue(Last(s))

count_or_minus_one(s) == IF isdigit(s) THEN int_of(s) ELSE -1

\* int(add) if add.isdigit() else 0
count(s) == IF isdigit(s) THEN int_of(s) ELSE 0

\* an index of a slice: a negative one counts from the end
slice_idx(s, i) == IF i >= 0 THEN i ELSE IF Len(s) + i >= 0 THEN Len(s) + i ELSE 0

\* rename2files of core/git.py
rename2files(rename) ==
    LET oc_pos == find(rename, "{")
        cc_pos == find(rename, "}")
        ar_pos == find_str(rename, Arrow)
    IN IF oc_pos >= 0 /\ cc_pos > oc_pos /\ (oc_pos < ar_pos /\ ar_pos < cc_pos)
       THEN <<partition_str(rename, Arrow).head, partition_str(rename, Arrow).tail>>
       ELSE <<rename, rename>>

Stat(c, sf, df, a, r) == [commit |-> c, src_file |-> sf, dst_file |-> df, add |-> a, rm |-> r]

\* what Git.stats does with a line that is no marker
git_stat_of(line, cmt) ==
    LET parts == split(line, "\t")
    IN IF Len(parts) # 3 THEN Raise("ValueError")
       ELSE IF cmt = Unbound THEN Raise("UnboundLocalError")
       ELSE [kind |-> "yield",
             stat |-> Stat(cmt, rename2files(parts[3])[1], rename2files(parts[3])[2],
                           count(parts[1]), count(parts[2]))]

GitStatsLineFirstMarker ==
    /\ simpl = "Git"
    /\ spc = "loop"
    /\ sidx < Len(slines)
    /\ sidx' = sidx + 1
    /\ LET line == slines[sidx + 1]
       IN IF line = <<>> THEN UNCHANGED <<scommit, stats, serr, spc>>
          ELSE IF startswith(line, <<NUL>>)
          THEN /\ scommit' = IF scommit = Unbound THEN split(line, NUL)[2] ELSE scommit
               /\ UNCHANGED <<stats, serr, spc>>
          ELSE LET r == git_stat_of(line, scommit)
               IN /\ scommit' = scommit
                  /\ stats' = IF r.kind = "yield" THEN Append(stats, r.stat) ELSE stats
                  /\ serr' = IF r.kind = "raise" THEN r.err ELSE serr
                  /\ spc' = IF r.kind = "raise" THEN "failed" ELSE spc
    /\ UNCHANGED <<simpl, slines, sstate, s_src_file, s_dst_file>>

\* one turn of the for loop of Git.stats
GitStatsLine ==
    /\ simpl = "Git"
    /\ spc = "loop"
    /\ sidx < Len(slines)
    /\ sidx' = sidx + 1
    /\ LET line == slines[sidx + 1]
       IN IF line = <<>> THEN UNCHANGED <<scommit, stats, serr, spc>>
          ELSE IF startswith(line, <<NUL>>)
          THEN /\ scommit' = split(line, NUL)[2]
               /\ UNCHANGED <<stats, serr, spc>>
          ELSE LET r == git_stat_of(line, scommit)
               IN /\ scommit' = scommit
                  /\ stats' = IF r.kind = "yield" THEN Append(stats, r.stat) ELSE stats
                  /\ serr' = IF r.kind = "raise" THEN r.err ELSE serr
                  /\ spc' = IF r.kind = "raise" THEN "failed" ELSE spc
    /\ UNCHANGED <<simpl, slines, sstate, s_src_file, s_dst_file>>

\* the end of the lines of Git.stats: git_cmd raises on a failed child
GitStatsEnd ==
    /\ simpl = "Git"
    /\ spc = "loop"
    /\ sidx = Len(slines)
    /\ IF code # 0
       THEN /\ serr' = raise_git_error(cmd, code, stderr)
            /\ spc' = "failed"
       ELSE /\ serr' = serr
            /\ spc' = "done"
    /\ UNCHANGED <<simpl, slines, sidx, sstate, scommit, s_src_file, s_dst_file, stats>>

\* the two paths get_all_stats makes of a file name; src_file and dst_file
\* keep what they hold when the braces enclose no arrow
pm_rename2files(fname, src_file, dst_file) ==
    LET start == find(fname, "{")
        end == find(fname, "}")
    IN IF start < end
       THEN LET prefix == Slice(fname, 0, slice_idx(fname, start))
                middle == Slice(fname, start + 1, end)
                postfix == SliceFrom(fname, end + 1)
                m == partition_str(middle, Arrow)
            IN IF m.sep
               THEN <<prefix \o m.head \o postfix, prefix \o m.tail \o postfix>>
               ELSE <<src_file, dst_file>>
       ELSE LET f == partition_str(fname, Arrow)
            IN IF f.sep THEN <<f.head, f.tail>> ELSE <<fname, fname>>

\* what get_all_stats does with a stat line
pm_stat_of(line, commit_hash, src_file, dst_file) ==
    LET parts == split(line, "\t")
    IN IF Len(parts) # 3 THEN Raise("ValueError")
       ELSE LET files == pm_rename2files(parts[3], src_file, dst_file)
            IN IF Unbound \in {files[1], files[2]} THEN Raise("UnboundLocalError")
               ELSE IF None \in {files[1], files[2]} THEN Raise("AttributeError")
               ELSE [kind |-> "yield",
                     stat |-> Stat(commit_hash, replace(files[1], <<"/", "/">>, <<"/">>),
                                   replace(files[2], <<"/", "/">>, <<"/">>),
                                   count(parts[1]), count(parts[2]))]

\* get_all_stats up to its loop: communicate() and the exit status
PmStatsOpen ==
    /\ simpl = "prometrics"
    /\ spc = "open"
    /\ IF code # 0
       THEN /\ serr' = GitError(code, out, stderr)
            /\ spc' = "failed"
       ELSE /\ serr' = serr
            /\ spc' = "loop"
    /\ UNCHANGED <<simpl, slines, sidx, sstate, scommit, s_src_file, s_dst_file, stats>>

\* one turn of the for loop of get_all_stats
PmStatsLine ==
    /\ simpl = "prometrics"
    /\ spc = "loop"
    /\ sidx < Len(slines)
    /\ sidx' = sidx + 1
    /\ LET line == strip(slines[sidx + 1])
       IN IF sstate = STAT_ST_START
          THEN /\ sstate' = IF line = <<"{">> THEN STAT_ST_COMMIT ELSE sstate
               /\ UNCHANGED <<scommit, s_src_file, s_dst_file, stats, serr, spc>>
          ELSE IF sstate = STAT_ST_COMMIT
          THEN IF startswith(line, <<"/C01/">>)
               THEN /\ scommit' = strip(rm_prefix(line, <<"/C01/">>))
                    /\ sstate' = STAT_ST_NEXT_STAT
                    /\ UNCHANGED <<s_src_file, s_dst_file, stats, serr, spc>>
               ELSE /\ serr' = [type |-> "Exception"]
                    /\ spc' = "failed"
                    /\ UNCHANGED <<scommit, sstate, s_src_file, s_dst_file, stats>>
          ELSE IF line = <<"/P12/">>
          THEN UNCHANGED <<sstate, scommit, s_src_file, s_dst_file, stats, serr, spc>>
          ELSE IF line = <<>> \/ line = <<"{">>
          THEN /\ sstate' = STAT_ST_START
               /\ scommit' = None
               /\ UNCHANGED <<s_src_file, s_dst_file, stats, serr, spc>>
          ELSE LET r == pm_stat_of(line, scommit, s_src_file, s_dst_file)
               IN /\ stats' = IF r.kind = "yield" THEN Append(stats, r.stat) ELSE stats
                  /\ serr' = IF r.kind = "raise" THEN r.err ELSE serr
                  /\ spc' = IF r.kind = "raise" THEN "failed" ELSE spc
                  /\ s_src_file' = IF r.kind = "yield" THEN None ELSE s_src_file
                  /\ s_dst_file' = IF r.kind = "yield" THEN None ELSE s_dst_file
                  /\ UNCHANGED <<sstate, scommit>>
    /\ UNCHANGED <<simpl, slines>>

\* the end of the lines of get_all_stats
PmStatsEnd ==
    /\ simpl = "prometrics"
    /\ spc = "loop"
    /\ sidx = Len(slines)
    /\ spc' = "done"
    /\ UNCHANGED <<simpl, slines, sidx, sstate, scommit, s_src_file, s_dst_file, stats, serr>>

(* ---------------- to_html5 and info2html5: aggregation ----------------- *)

\* most commits of a history
MaxCommits == 3

\* a datetime is a number of hours; day 0 is a Monday (2024-01-01)
DT(d, h) == d * 24 + h

\* datetime.hour
hour(dt) == dt % 24

\* datetime.weekday()
weekday(dt) == (dt \div 24) % 7

\* timedelta.days, and total_seconds() // (60 * 60 * 24)
days(delta) == delta \div 24

\* [v] * n
list_of(v, n) == [i \in 1..n |-> v]

set_one(l, k) == [l EXCEPT ![k + 1] = 1]

\* l[k] += 1 for a 0-based k
inc(l, k) == [l EXCEPT ![k + 1] = @ + 1]

\* the rolling windows, in days
Windows == {7, 30, 90}

\* {}
EmptyDict == [x \in {} |-> 0]

\* d.get(k, v)
get(d, k, v) == IF k \in DOMAIN d THEN d[k] ELSE v

\* d[k] = v
put(d, k, v) == [x \in DOMAIN d \cup {k} |-> IF x = k THEN v ELSE d[x]]

\* the count of d[email][name] raised by one
count_name(d, email, name) ==
    put(d, email, put(get(d, email, EmptyDict), name, get(get(d, email, EmptyDict), name, 0) + 1))

AuthorNames == {"Alice", "Bob", "ali"}

\* the order of Python 2 on the names of the model: that of their bytes
NameRank(n) == CASE n = "Alice" -> 1 [] n = "Bob" -> 2 [] n = "ali" -> 3

\* sum(d.values())
RECURSIVE sum_values(_)
sum_values(d) ==
    IF DOMAIN d = {} THEN 0
    ELSE LET k == CHOOSE x \in DOMAIN d : TRUE
         IN d[k] + sum_values([x \in DOMAIN d \ {k} |-> d[x]])

\* sorted(commits, key=lambda c: c.commiter_date): equal dates keep their order
RECURSIVE sort_commits(_)
sort_commits(s) ==
    IF s = <<>> THEN <<>>
    ELSE LET before == sort_commits(Front(s))
             x == Last(s)
             k == Cardinality({i \in 1..Len(before) : before[i].commiter_date <= x.commiter_date})
         IN SubSeq(before, 1, k) \o <<x>> \o SubSeq(before, k + 1, Len(before))

min_author_date(cs) ==
    CHOOSE d \in {cs[i].author_date : i \in 1..Len(cs)} :
        \A i \in 1..Len(cs) : d <= cs[i].author_date

max_author_date(cs) ==
    CHOOSE d \in {cs[i].author_date : i \in 1..Len(cs)} :
        \A i \in 1..Len(cs) : d >= cs[i].author_date

\* to_html5 up to its loop over the commits
ToHtml5Open ==
    /\ aimpl = "to_html5"
    /\ apc = "open"
    /\ IF commits = <<>>
       THEN /\ aerr' = [type |-> "ValueError"]
            /\ apc' = "failed"
            /\ UNCHANGED <<commits, first_commit, weeks, hours, week_days>>
       ELSE /\ commits' = sort_commits(commits)
            /\ first_commit' = min_author_date(commits)
            /\ weeks' = list_of(0, days(max_author_date(commits) - min_author_date(commits)) \div 7 + 1)
            /\ hours' = list_of(0, 24)
            /\ week_days' = list_of(0, 7)
            /\ apc' = "loop"
            /\ aerr' = aerr
    /\ UNCHANGED <<aimpl, now, aidx, week_start, commits_count, names, authors, inactive_days, last_commits, last_authors, commiters, top>>

\* one turn of the loop of to_html5 over the commits
ToHtml5Commit ==
    /\ aimpl = "to_html5"
    /\ apc = "loop"
    /\ aidx < Len(commits)
    /\ aidx' = aidx + 1
    /\ LET cm == commits[aidx + 1]
           delta == cm.author_date - first_commit
       IN /\ names' = count_name(names, cm.author_email, cm.author_name)
          /\ inactive_days' = inactive_days + days(delta)
          /\ hours' = inc(hours, hour(cm.author_date))
          /\ weeks' = inc(weeks, days(delta) \div 7)
          /\ week_days' = inc(week_days, weekday(cm.author_date))
          /\ last_commits' =
                [w \in Windows |->
                    IF days(delta) <= w THEN Append(last_commits[w], cm) ELSE last_commits[w]]
          /\ last_authors' =
                [w \in Windows |->
                    IF days(delta) <= w THEN last_authors[w] \cup {cm.author_email}
                    ELSE last_authors[w]]
    /\ UNCHANGED <<aimpl, commits, now, apc, aerr, first_commit, week_start, commits_count, authors, commiters, top>>

\* max((len(commits), name) for name, commits in names.iteritems())[1]
name_of_most_commits(counts) ==
    CHOOSE n \in DOMAIN counts :
        \A m \in DOMAIN counts :
            \/ counts[m] < counts[n]
            \/ counts[m] = counts[n] /\ NameRank(m) <= NameRank(n)

\* to_html5 after the loop: the days since the last commit, and the authors
ToHtml5Authors ==
    /\ aimpl = "to_html5"
    /\ apc = "loop"
    /\ aidx = Len(commits)
    /\ inactive_days' = inactive_days + days(now - Last(commits).author_date)
    /\ authors' =
        [email \in DOMAIN names |->
            [commits |-> sum_values(names[email]), name |-> name_of_most_commits(names[email])]]
    /\ apc' = "done"
    /\ UNCHANGED <<aimpl, commits, now, aidx, aerr, first_commit, weeks, week_start, commits_count, hours, week_days, names, last_commits, last_authors, commiters, top>>

\* the counts d[email][name] over all commits, for the named fields
RECURSIVE count_names(_, _, _)
count_names(cs, email_field, name_field) ==
    IF cs = <<>> THEN EmptyDict
    ELSE count_name(count_names(Front(cs), email_field, name_field),
                    Last(cs)[email_field], Last(cs)[name_field])

\* info2html5 up to its first use of master_commits[0]
Info2Html5Open ==
    /\ aimpl = "info2html5"
    /\ apc = "open"
    /\ commits' = sort_commits(commits)
    /\ commiters' = count_names(commits, "commiter_email", "commiter_name")
    /\ IF commits = <<>>
       THEN /\ aerr' = [type |-> "IndexError"]
            /\ apc' = "failed"
       ELSE /\ aerr' = aerr
            /\ apc' = "inactive"
    /\ UNCHANGED <<aimpl, now, aidx, first_commit, weeks, week_start, commits_count, hours, week_days, names, authors, inactive_days, last_commits, last_authors, top>>

\* the loop of info2html5 over the gaps between commits, from commit i on
RECURSIVE inactive_from(_, _, _, _)
inactive_from(cs, i, last_commit, acc) ==
    IF i > Len(cs) THEN [inactive_days |-> acc, last_commit |-> last_commit]
    ELSE LET delta == days(cs[i].commiter_date - last_commit)
         IN IF delta > 1
            THEN inactive_from(cs, i + 1, last_commit + DT(delta, 0), acc + delta)
            ELSE IF delta = 1
            THEN inactive_from(cs, i + 1, last_commit + DT(1, 0), acc)
            ELSE inactive_from(cs, i + 1, last_commit, acc)

\* the inactive days of info2html5
Info2Html5Inactive ==
    /\ aimpl = "info2html5"
    /\ apc = "inactive"
    /\ LET r == inactive_from(commits, 1, commits[1].commiter_date, 0)
       IN inactive_days' = r.inactive_days + days(now - r.last_commit)
    /\ week_start' = commits[1].commiter_date
    /\ commits_count' = 0
    /\ weeks' = <<>>
    /\ aidx' = 0
    /\ apc' = "weekly"
    /\ UNCHANGED <<aimpl, commits, now, aerr, first_commit, hours, week_days, names, authors, last_commits, last_authors, commiters, top>>

\* one turn of the loop of info2html5 that fills weekly_commits
Info2Html5Week ==
    /\ aimpl = "info2html5"
    /\ apc = "weekly"
    /\ aidx < Len(commits)
    /\ aidx' = aidx + 1
    /\ LET delta == days(commits[aidx + 1].commiter_date - week_start)
       IN IF delta < 7
          THEN /\ commits_count' = commits_count + 1
               /\ UNCHANGED <<weeks, week_start>>
          ELSE /\ weeks' = (weeks \o list_of(0, delta \div 7)) \o <<commits_count>>
               /\ commits_count' = 1
               /\ week_start' = week_start + DT(7, 0)
    /\ UNCHANGED <<aimpl, commits, now, apc, aerr, first_commit, hours, week_days, names, authors, inactive_days, last_commits, last_authors, commiters, top>>

\* the end of that loop
Info2Html5WeekEnd ==
    /\ aimpl = "info2html5"
    /\ apc = "weekly"
    /\ aidx = Len(commits)
    /\ weeks' = Append(weeks, commits_count)
    /\ apc' = "histograms"
    /\ UNCHANGED <<aimpl, commits, now, aidx, aerr, first_commit, week_start, commits_count, hours, week_days, names, authors, inactive_days, last_commits, last_authors, commiters, top>>

\* the bucket of a commit: the hour or the weekday of its commiter date
bucket_of(c, unit) ==
    IF unit = "hour" THEN hour(c.commiter_date) ELSE weekday(c.commiter_date)

\* a histogram of n buckets over all commits
RECURSIVE histogram(_, _, _)
histogram(cs, n, unit) ==
    IF cs = <<>> THEN list_of(0, n)
    ELSE inc(histogram(Front(cs), n, unit), bucket_of(Last(cs), unit))

\* hourly_commits and weekday_commits of info2html5
Info2Html5Histograms ==
    /\ aimpl = "info2html5"
    /\ apc = "histograms"
    /\ hours' = histogram(commits, 24, "hour")
    /\ week_days' = histogram(commits, 7, "weekday")
    /\ apc' = "authors"
    /\ UNCHANGED <<aimpl, commits, now, aidx, aerr, first_commit, weeks, week_start, commits_count, names, authors, inactive_days, last_commits, last_authors, commiters, top>>

\* max(max_count, item) over the items (name, count): tuples compare by
\* their first element first, and None is below every tuple
max_item(counts) ==
    CHOOSE n \in DOMAIN counts : \A m \in DOMAIN counts : NameRank(m) <= NameRank(n)

Author(email, name, n) == [email |-> email, name |-> name, commits |-> n]

\* s is in the order sorted(..., key=lambda a: a.commits, reverse=1) may give
\* to the values of a dict
SortedByCommits(s, d) ==
    /\ Len(s) = Cardinality(DOMAIN d)
    /\ {s[i] : i \in 1..Len(s)} = {d[e] : e \in DOMAIN d}
    /\ \A i \in 1..(Len(s) - 1) : s[i].commits >= s[i + 1].commits

\* the authors of info2html5, most commits first
Info2Html5Authors ==
    /\ aimpl = "info2html5"
    /\ apc = "authors"
    /\ names' = count_names(commits, "author_email", "author_name")
    /\ LET by_email ==
            [email \in DOMAIN names' |->
                Author(email, max_item(names'[email]), sum_values(names'[email]))]
       IN \E s \in [1..Cardinality(DOMAIN by_email) -> {by_email[e] : e \in DOMAIN by_email}] :
            /\ SortedByCommits(s, by_email)
            /\ authors' = s
    /\ apc' = "filters"
    /\ UNCHANGED <<aimpl, commits, now, aidx, aerr, first_commit, weeks, week_start, commits_count, hours, week_days, inactive_days, last_commits, last_authors, commiters, top>>

\* (NOW - cm.commiter_date).total_seconds() // (60 * 60 * 24) <= days
in_last_interval(cm, n) == days(now - cm.commiter_date) <= n

\* commits_last_interval(days)(commits)
commits_last_interval(n, cs) == Cardinality({i \in 1..Len(cs) : in_last_interval(cs[i], n)})

\* commiters_last_interval(days)(commits)
commiters_last_interval(n, cs) ==
    Cardinality({cs[i].commiter_email : i \in {j \in 1..Len(cs) : in_last_interval(cs[j], n)}})

\* t1 >= t2 for tuples (tot, name)
tuple_ge(t1, t2) == t1[1] > t2[1] \/ (t1[1] = t2[1] /\ NameRank(t1[2]) >= NameRank(t2[2]))

\* top_commiters(n)(commiters) when the iteration over the names of an email
\* ends with the name last_name[email]: the heap keeps the n greatest of the
\* tuples (tot, name) and of n times None, and nlargest lists them
top_commiters(n, d, last_name, order) ==
    LET items == [i \in 1..Len(order) |-> <<sum_values(d[order[i]]), last_name[order[i]]>>]
    IN [i \in 1..n |-> IF i <= Len(items) THEN items[i] ELSE None]

\* order lists the emails of d, greatest tuple (tot, name) first
TopOrder(order, d, last_name) ==
    /\ Len(order) = Cardinality(DOMAIN d)
    /\ {order[i] : i \in 1..Len(order)} = DOMAIN d
    /\ \A i \in 1..(Len(order) - 1) :
        tuple_ge(<<sum_values(d[order[i]]), last_name[order[i]]>>,
                 <<sum_values(d[order[i + 1]]), last_name[order[i + 1]]>>)

\* the filters of the templates of info2html5, applied to the commits of
\* master and to its commiters
Info2Html5Filters ==
    /\ aimpl = "info2html5"
    /\ apc = "filters"
    /\ last_commits' = [w \in Windows |-> commits_last_interval(w, commits)]
    /\ last_authors' = [w \in Windows |-> commiters_last_interval(w, commits)]
    /\ \E last_name \in [DOMAIN commiters -> AuthorNames] :
        /\ \A e \in DOMAIN commiters : last_name[e] \in DOMAIN commiters[e]
        /\ \E order \in [1..Cardinality(DOMAIN commiters) -> DOMAIN commiters] :
            /\ TopOrder(order, commiters, last_name)
            /\ top' = top_commiters(5, commiters, last_name, order)
    /\ apc' = "done"
    /\ UNCHANGED <<aimpl, commits, now, aidx, aerr, first_commit, weeks, week_start, commits_count, hours, week_days, names, authors, inactive_days, commiters>>

(* --------- get_all_info and to_html5: the queries and the join --------- *)

\* most file events of a history
MaxEvents == 3

\* an attribute that holds None is <<>>, one that holds the number n is <<n>>
Unset == <<>>

\* the results of a parser that are yields, as a sequence of their values
RECURSIVE yielded_of(_, _)
yielded_of(rs, field) ==
    IF rs = <<>> THEN <<>>
    ELSE IF Last(rs).kind = "yield"
    THEN Append(yielded_of(Front(rs), field), Last(rs)[field])
    ELSE yielded_of(Front(rs), field)

\* the Changes get_all_changes yields for a history h, one raw line per event
get_all_changes(h) ==
    yielded_of([i \in 1..Len(h) |-> pm_change_of(h[i].raw, h[i].commit)], "change")

\* the Stats get_all_stats yields for the history, one numstat line per event
get_all_stats(h) ==
    yielded_of([i \in 1..Len(h) |-> pm_stat_of(h[i].numstat, h[i].commit, None, None)], "stat")

\* the Changes of Git.changes
repo_changes(h) ==
    yielded_of([i \in 1..Len(h) |-> git_change_of(h[i].raw, h[i].commit)], "change")

\* the Stats of Git.stats
repo_stats(h) ==
    yielded_of([i \in 1..Len(h) |-> git_stat_of(h[i].numstat, h[i].commit)], "stat")

\* File(change.commit_hash, change.status, ..., None, ...): the modes and the
\* hashes, which the join does not read, are left out
File(change) ==
    [commit |-> change.commit_hash, op |-> change.status,
     src_file |-> change.src_file, dst_file |-> change.dst_file,
     changes |-> Unset, add |-> Unset, rm |-> Unset, trees |-> Unset]

\* the first loop of get_all_info: commits[f.commit][f.src_file] = f and
\* files.append(f); the dict holds the place of f in files
RECURSIVE index_changes(_)
index_changes(chs) ==
    IF chs = <<>> THEN [commits |-> EmptyDict, files |-> <<>>]
    ELSE LET r == index_changes(Front(chs))
             f == File(Last(chs))
         IN [commits |-> put(r.commits, f.commit,
                             put(get(r.commits, f.commit, EmptyDict), f.src_file,
                                 Len(r.files) + 1)),
             files |-> Append(r.files, f)]

\* the second loop of get_all_info: f = commits[stat.commit][stat.src_file],
\* then the counts of the stat are written to f
RECURSIVE attach_stats(_, _, _)
attach_stats(sts, cs, fs) ==
    IF sts = <<>> THEN [commits |-> cs, files |-> fs, err |-> NoErr]
    ELSE LET st == Head(sts)
             of_commit == get(cs, st.commit, EmptyDict)
             cs1 == put(cs, st.commit, of_commit)
         IN IF st.src_file \notin DOMAIN of_commit
            THEN [commits |-> cs1, files |-> fs, err |-> [type |-> "KeyError"]]
            ELSE attach_stats(Tail(sts), cs1,
                    [fs EXCEPT ![of_commit[st.src_file]] =
                        [@ EXCEPT !.changes = <<st.add + st.rm>>,
                                  !.add = <<st.add>>, !.rm = <<st.rm>>]])

\* one more run of the query q, or n more
Called(q, n) == [calls EXCEPT ![q] = @ + n]

\* the commits of the history, newest first, as the log prints them
HistoryCommits ==
    <<[hash |-> <<"c2">>, tree |-> <<"t2">>, author_date |-> DT(40, 9)],
      [hash |-> <<"c1">>, tree |-> <<"t1">>, author_date |-> DT(0, 10)]>>

\* get_all_info: the loop over get_all_changes
InfoChanges ==
    /\ jimpl = "get_all_info"
    /\ jpc = "open"
    /\ calls' = Called("changes", 1)
    /\ LET r == index_changes(get_all_changes(history))
       IN /\ info_commits' = r.commits
          /\ info_files' = r.files
    /\ jpc' = "stats"
    /\ UNCHANGED <<jimpl, history, jerr, stats_of_commit, changes_of_commit, last_stats, tot_add, tot_rm>>

\* get_all_info: the loop over get_all_stats
InfoStats ==
    /\ jimpl = "get_all_info"
    /\ jpc = "stats"
    /\ calls' = Called("stats", 1)
    /\ LET r == attach_stats(get_all_stats(history), info_commits, info_files)
       IN /\ info_commits' = r.commits
          /\ info_files' = r.files
          /\ jerr' = r.err
          /\ jpc' = IF r.err = NoErr THEN "verify" ELSE "failed"
    /\ UNCHANGED <<jimpl, history, stats_of_commit, changes_of_commit, last_stats, tot_add, tot_rm>>

\* get_all_info: the trees of the commits, then the blobs of the changes of
\* every commit; every hash of a change names a blob of a tree of the
\* history, so no Exception is raised
InfoVerify ==
    /\ jimpl = "get_all_info"
    /\ jpc = "verify"
    /\ calls' = [calls EXCEPT !["tree_commits"] = @ + 1, !["commits"] = @ + 1,
                              !["changes_by_commit"] = @ + Len(HistoryCommits)]
    /\ info_commits' =
        [c \in DOMAIN info_commits \cup {HistoryCommits[i].hash : i \in 1..Len(HistoryCommits)} |->
            get(info_commits, c, EmptyDict)]
    /\ info_files' =
        [k \in 1..Len(info_files) |->
            IF \E i \in 1..Len(HistoryCommits) :
                    /\ HistoryCommits[i].hash \in DOMAIN info_commits
                    /\ \E sf \in DOMAIN info_commits[HistoryCommits[i].hash] :
                            info_commits[HistoryCommits[i].hash][sf] = k
            THEN [info_files[k] EXCEPT !.trees =
                    <<HistoryCommits[CHOOSE i \in 1..Len(HistoryCommits) :
                            HistoryCommits[i].hash = info_files[k].commit].tree>>]
            ELSE info_files[k]]
    /\ jpc' = "return"
    /\ UNCHANGED <<jimpl, history, jerr, stats_of_commit, changes_of_commit, last_stats, tot_add, tot_rm>>

\* get_all_info: the objects of the files (one show or diff per file, no
\* query of the history), then get_all_commits once more for the result
InfoReturn ==
    /\ jimpl = "get_all_info"
    /\ jpc = "return"
    /\ calls' = Called("commits", 1)
    /\ jpc' = "done"
    /\ UNCHANGED <<jimpl, history, jerr, info_commits, info_files, stats_of_commit, changes_of_commit, last_stats, tot_add, tot_rm>>

\* d.setdefault(r.commit, []).append(r) for every r of rs
RECURSIVE group_by_commit(_)
group_by_commit(rs) ==
    IF rs = <<>> THEN EmptyDict
    ELSE LET d == group_by_commit(Front(rs))
         IN put(d, Last(rs).commit, Append(get(d, Last(rs).commit, <<>>), Last(rs)))

\* sum(r.<field> for r in rs)
RECURSIVE sum_of(_, _)
sum_of(rs, field) == IF rs = <<>> THEN 0 ELSE Head(rs)[field] + sum_of(Tail(rs), field)

\* hash2commit[h].author_date
author_date_of(h) ==
    HistoryCommits[CHOOSE i \in 1..Len(HistoryCommits) : HistoryCommits[i].hash = h].author_date

\* to_html5: commits = list(repo.commits()); the aggregates of the loop over
\* the commits are those of ToHtml5Open and ToHtml5Commit
ToHtml5Query ==
    /\ jimpl = "to_html5"
    /\ jpc = "open"
    /\ calls' = Called("commits", 1)
    /\ jpc' = "stats"
    /\ UNCHANGED <<jimpl, history, jerr, info_commits, info_files, stats_of_commit, changes_of_commit, last_stats, tot_add, tot_rm>>

\* to_html5: the loop over repo.stats()
ToHtml5Stats ==
    /\ jimpl = "to_html5"
    /\ jpc = "stats"
    /\ calls' = Called("stats", 1)
    /\ LET sts == repo_stats(history)
           first == min_author_date(HistoryCommits)
       IN /\ stats_of_commit' = group_by_commit(sts)
          /\ last_stats' =
                [w \in Windows |->
                    SelectSeq(sts, LAMBDA st : days(author_date_of(st.commit) - first) <= w)]
    /\ jpc' = "changes"
    /\ UNCHANGED <<jimpl, history, jerr, info_commits, info_files, changes_of_commit, tot_add, tot_rm>>

\* to_html5: the loop over repo.changes()
ToHtml5Changes ==
    /\ jimpl = "to_html5"
    /\ jpc = "changes"
    /\ calls' = Called("changes", 1)
    /\ changes_of_commit' = group_by_commit(repo_changes(history))
    /\ jpc' = "totals"
    /\ UNCHANGED <<jimpl, history, jerr, info_commits, info_files, stats_of_commit, last_stats, tot_add, tot_rm>>

\* to_html5: tot_add and tot_rm, each from repo.stats() run again
ToHtml5Totals ==
    /\ jimpl = "to_html5"
    /\ jpc = "totals"
    /\ calls' = Called("stats", 2)
    /\ tot_add' = sum_of(repo_stats(history), "add")
    /\ tot_rm' = sum_of(repo_stats(history), "rm")
    /\ jpc' = "done"
    /\ UNCHANGED <<jimpl, history, jerr, info_commits, info_files, stats_of_commit, changes_of_commit, last_stats>>

(* -------------------- _main of prometrics-report.py -------------------- *)

\* most branches of a repository
MaxBranches == 2

\* the driver up to the loop: tmp_dir, Git.clone and repo.clean(); a GitError
\* of either is logged and the driver returns
DriverOpen ==
    /\ dpc = "open"
    /\ tmp_dir' = "present"
    /\ dpc' = IF repo.clone = "ok" /\ repo.clean = "ok" THEN "switch" ELSE "finally"
    /\ UNCHANGED <<repo, didx, done_branches, branches_txt, derr>>

\* one turn of the loop over repo.branches(), up to the call of to_html5:
\* repo.branch = branch; a GitError is logged and the loop goes on
DriverSwitch ==
    /\ dpc = "switch"
    /\ didx < Len(repo.branches)
    /\ IF repo.branches[didx + 1].switch = "ok"
       THEN /\ dpc' = "report"
            /\ didx' = didx
       ELSE /\ dpc' = "switch"
            /\ didx' = didx + 1
    /\ UNCHANGED <<repo, done_branches, branches_txt, derr, tmp_dir>>

\* the rest of the turn: to_html5; the branch is done when it returns, a
\* ReportError is logged and the loop goes on, any other error leaves the
\* loop and the try
DriverReport ==
    /\ dpc = "report"
    /\ LET branch == repo.branches[didx + 1]
       IN IF branch.report = "ok"
          THEN /\ done_branches' = Append(done_branches, branch.name)
               /\ dpc' = "switch"
               /\ derr' = derr
          ELSE IF branch.report = "ReportError"
          THEN /\ dpc' = "switch"
               /\ UNCHANGED <<done_branches, derr>>
          ELSE /\ derr' = [type |-> branch.report]
               /\ dpc' = "finally"
               /\ done_branches' = done_branches
    /\ didx' = didx + 1
    /\ UNCHANGED <<repo, branches_txt, tmp_dir>>

\* after the loop: branches.txt, when a branch is done
DriverWrite ==
    /\ dpc = "switch"
    /\ didx = Len(repo.branches)
    /\ branches_txt' = IF done_branches # <<>> THEN done_branches ELSE branches_txt
    /\ dpc' = "finally"
    /\ UNCHANGED <<repo, didx, done_branches, derr, tmp_dir>>

\* finally: shutil.rmtree(tmp_dir, 1)
DriverFinally ==
    /\ dpc = "finally"
    /\ tmp_dir' = "removed"
    /\ dpc' = "done"
    /\ UNCHANGED <<repo, didx, done_branches, branches_txt, derr>>

(* --------------------------- specifications --------------------------- *)

NewReport ==
    /\ aidx = 0
    /\ aerr = NoErr
    /\ first_commit = 0
    /\ weeks = <<>>
    /\ week_start = 0
    /\ commits_count = 0
    /\ hours = <<>>
    /\ week_days = <<>>
    /\ names = EmptyDict
    /\ authors = EmptyDict
    /\ inactive_days = 0
    /\ last_commits = [w \in Windows |-> <<>>]
    /\ last_authors = [w \in Windows |-> {}]
    /\ commiters = EmptyDict
    /\ top = <<>>

IdleReport ==
    /\ aimpl = "none"
    /\ commits = <<>>
    /\ now = 0
    /\ apc = "idle"
    /\ NewReport


NewJoin ==
    /\ jerr = NoErr
    /\ calls = [commits |-> 0, changes |-> 0, stats |-> 0, tree_commits |-> 0,
                changes_by_commit |-> 0]
    /\ info_commits = EmptyDict
    /\ info_files = <<>>
    /\ stats_of_commit = EmptyDict
    /\ changes_of_commit = EmptyDict
    /\ last_stats = [w \in Windows |-> <<>>]
    /\ tot_add = 0
    /\ tot_rm = 0

IdleJoin ==
    /\ jimpl = "none"
    /\ history = <<>>
    /\ jpc = "idle"
    /\ NewJoin

\* branches.txt that was not written
NoFile == <<"no file">>

NewDriver ==
    /\ didx = 0
    /\ done_branches = <<>>
    /\ branches_txt = NoFile
    /\ derr = NoErr

IdleDriver ==
    /\ repo = [clone |-> "ok", clean |-> "ok", branches |-> <<>>]
    /\ dpc = "idle"
    /\ tmp_dir = "absent"
    /\ NewDriver

IdleCommits ==
    /\ clines = <<>>
    /\ cidx = 0
    /\ in_data = 0
    /\ fields = NoFields
    /\ text = <<>>
    /\ last = NoCommit
    /\ no_date = <<>>
    /\ emitted = <<>>
    /\ cerr = NoErr
    /\ cpc = "idle"

IdleChanges ==
    /\ ximpl = "none"
    /\ xlines = <<>>
    /\ xidx = 0
    /\ state = CH_ST_START
    /\ commit = None
    /\ changes = <<>>
    /\ xerr = NoErr
    /\ xpc = "idle"

IdleStats ==
    /\ simpl = "none"
    /\ slines = <<>>
    /\ sidx = 0
    /\ sstate = STAT_ST_START
    /\ scommit = Unbound
    /\ s_src_file = Unbound
    /\ s_dst_file = Unbound
    /\ stats = <<>>
    /\ serr = NoErr
    /\ spc = "idle"

IdleResolver ==
    /\ short = <<>>
    /\ impl = "none"
    /\ res = None
    /\ rerr = NoErr
    /\ queries = 0
    /\ rpc = "idle"

NewReader ==
    /\ pos = 0
    /\ reads = <<>>
    /\ buf = <<>>
    /\ yielded = <<>>
    /\ pc = "start"
    /\ err = NoErr
    /\ waited = FALSE
    /\ abandoned = FALSE

InitCmd ==
    /\ cmd = git_cmd_prefix \o <<"log">>
    /\ out \in SeqsUpTo(Byte, MaxOut)
    /\ code \in ExitCodes
    /\ stderr \in StderrTexts
    /\ NewReader
    /\ IdleResolver
    /\ IdleCommits
    /\ IdleChanges
    /\ IdleStats
    /\ IdleReport
    /\ IdleJoin
    /\ IdleDriver

NextCmd ==
    \/ (Start /\ UNCHANGED nonReaderVars)
    \/ (WhileExit /\ UNCHANGED nonReaderVars)
    \/ (YieldLine /\ UNCHANGED nonReaderVars)
    \/ (ReadMore /\ UNCHANGED nonReaderVars)
    \/ (ResumeLine /\ UNCHANGED nonReaderVars)
    \/ (ResumeTail /\ UNCHANGED nonReaderVars)
    \/ (Close /\ UNCHANGED nonReaderVars)
    \/ (Finally /\ UNCHANGED nonReaderVars)

SpecCmd == InitCmd /\ [][NextCmd]_vars

\* what the child of clone may print
CloneByte == {"a", EOL, UsernameFor}

InitClone ==
    /\ cmd = <<"git", "clone", "https://git::@host/repo", "out">>
    /\ out \in SeqsUpTo(CloneByte, MaxOut)
    /\ code \in ExitCodes
    /\ stderr \in StderrTexts
    /\ NewReader
    /\ IdleResolver
    /\ IdleCommits
    /\ IdleChanges
    /\ IdleStats
    /\ IdleReport
    /\ IdleJoin
    /\ IdleDriver

NextClone ==
    \/ (CloneStart /\ UNCHANGED nonReaderVars)
    \/ (CloneWhileExit /\ UNCHANGED nonReaderVars)
    \/ (CloneCallRead /\ UNCHANGED nonReaderVars)
    \/ (CloneReadReturns /\ UNCHANGED nonReaderVars)
    \/ (CloneYieldLine /\ UNCHANGED nonReaderVars)
    \/ (CloneResume /\ UNCHANGED nonReaderVars)
    \/ (CloneFinally /\ UNCHANGED nonReaderVars)

\* Git.clone asks for every line (for line in clone(...): pass), and a read
\* of the pipe of a child that ends does return: no step waits for ever
SpecClone == InitClone /\ [][NextClone]_vars /\ WF_vars(NextClone)

InitResolve ==
    /\ cmd = <<>>
    /\ \E run \in RevParseRuns :
        /\ out = run.out
        /\ code = run.code
        /\ stderr = run.stderr
    /\ NewReader
    /\ short \in Shorts
    /\ impl \in {"Git", "prometrics"}
    /\ res = None
    /\ rerr = NoErr
    /\ queries = 0
    /\ rpc = "call"
    /\ IdleCommits
    /\ IdleChanges
    /\ IdleStats
    /\ IdleReport
    /\ IdleJoin
    /\ IdleDriver

\* the generator runs inside next(); once the result is taken nothing holds
\* the generator any more and it is closed
NextResolve ==
    \/ (GitResolveCall /\ UNCHANGED nonResolverVars)
    \/ (PmResolve /\ UNCHANGED nonResolverVars)
    \/ (rpc = "next" /\ Start /\ UNCHANGED nonReaderVars)
    \/ (rpc = "next" /\ WhileExit /\ UNCHANGED nonReaderVars)
    \/ (rpc = "next" /\ YieldLine /\ UNCHANGED nonReaderVars)
    \/ (rpc = "next" /\ ReadMore /\ UNCHANGED nonReaderVars)
    \/ (rpc = "next" /\ Finally /\ UNCHANGED nonReaderVars)
    \/ (GitResolveTake /\ UNCHANGED nonResolverVars)
    \/ (GitResolveRaise /\ UNCHANGED nonResolverVars)
    \/ (rpc = "returned" /\ Close /\ UNCHANGED nonReaderVars)
    \/ (rpc = "returned" /\ Finally /\ UNCHANGED nonReaderVars)

SpecResolve == InitResolve /\ [][NextResolve]_vars

\* a header line: the sentinel, then ten fields each closed by the sentinel
Header(h, ai, ci) ==
    <<NUL, h, NUL, "tree of " \o h, NUL, "parent of " \o h, NUL,
      "author of " \o h, NUL, "author@" \o h, NUL>> \o ai \o <<NUL,
      "commiter of " \o h, NUL, "commiter@" \o h, NUL>> \o ci \o <<NUL,
      "subject", " ", "of", " ", h, NUL>>

Date1 == <<"2024-01-01", " ", "10:00:00", " ", "+0100">>
Date2 == <<"2024-01-08", " ", "11:30:00", " ", "+0000">>
Date3 == <<"2024-01-20", " ", "23:59:59", " ", "-0800">>

\* well-formed headers: two with their dates, one with none, one with no
\* author date
GoodHeaders ==
    {Header("c1", Date1, Date1), Header("c2", Date2, Date3)}

DatelessHeaders ==
    {Header("c3", <<>>, <<>>), Header("c4", <<>>, Date3)}

\* lines of a message
BodyLines == {<<"fix", " ", "bug">>, <<>>}

\* lines that start with the sentinel and split into 3 and into 13 fields
BadHeaders == {<<NUL, "c5", NUL>>, Header("c6", Date1, Date1) \o <<"x", NUL>>}

CommitLineKinds == GoodHeaders \cup DatelessHeaders \cup BodyLines \cup BadHeaders

\* the output of the child whose lines are ls
Terminated(ls) == join(EOL, ls) \o (IF ls = <<>> THEN <<>> ELSE <<EOL>>)

InitCommits ==
    /\ clines \in SeqsUpTo(CommitLineKinds, MaxLines)
    /\ cidx = 0
    /\ in_data = 0
    /\ fields = NoFields
    /\ text = <<>>
    /\ last = NoCommit
    /\ no_date = <<>>
    /\ emitted = <<>>
    /\ cerr = NoErr
    /\ cpc = "loop"
    /\ cmd = git_cmd_prefix \o <<"log">>
    /\ out = Terminated(clines)
    /\ code \in {0, 1}
    /\ stderr = IF code = 0 THEN <<>> ELSE <<"fatal: bad object", EOL>>
    /\ pos = Len(out)
    /\ reads = <<>>
    /\ buf = <<>>
    /\ yielded = clines
    /\ pc = "done"
    /\ err = IF code # 0 /\ pc = "done" THEN raise_git_error(cmd, code, stderr) ELSE NoErr
    /\ waited = TRUE
    /\ abandoned = FALSE
    /\ IdleResolver
    /\ IdleChanges
    /\ IdleStats
    /\ IdleReport
    /\ IdleJoin
    /\ IdleDriver

NextCommits ==
    \/ (CommitsLine /\ UNCHANGED nonCommitVars)
    \/ (CommitsEnd /\ UNCHANGED nonCommitVars)

SpecCommits == InitCommits /\ [][NextCommits]_vars

\* a marker line of Git.changes
Marker(h) == <<NUL, h, NUL>>

\* a line of the raw diff format
RawLine(sm, dm, sh, dh, st, score, paths) ==
    <<":", sm, " ", dm, " ">> \o sh \o <<" ">> \o dh \o <<" ", st>> \o score \o <<"\t">> \o paths

Short1 == <<"abc1234">>
Short2 == <<"def5678">>
Dots == <<".", ".", ".">>

AddLine == RawLine("000000", "100644", Zeros(7), Short1, "A", <<>>, <<"new.txt">>)
DeleteLine == RawLine("100644", "000000", Short1, Zeros(7), "D", <<>>, <<"old.txt">>)
ModifyLine ==
    RawLine("100644", "100644", Short1 \o Dots, Short2 \o Dots, "M", <<>>, <<"my", " ", "file">>)
RenameLine == RawLine("100644", "100644", Short1, Short1, "R", <<"86">>, <<"a.txt", "\t", "b.txt">>)
CopyLine == RawLine("100644", "100644", Short1, Short1, "C", <<"100">>, <<"a.txt", "\t", "c.txt">>)
TypeLine == RawLine("100644", "120000", Short1, Short2, "T", <<>>, <<"link">>)
UnmergedLine == RawLine("100644", "100644", Short1, Zeros(7), "U", <<>>, <<"both.txt">>)
UnknownLine == RawLine("100644", "100644", Short1, Short2, "X", <<>>, <<"odd.txt">>)
UnresolvedLine == RawLine("100644", "100644", <<"bad9999">>, Short2, "M", <<>>, <<"lost.txt">>)
\* a pair whose pairing is broken, a status letter the parsers do not name
BrokenLine == RawLine("100644", "100644", Short1, Short2, "B", <<"50">>, <<"split.txt">>)
UnknownUnresolvedLine ==
    RawLine("100644", "100644", Short1, <<"bad9999">>, "X", <<>>, <<"gone.txt">>)
\* a deletion whose source is the all-zero name
DeleteNullLine == RawLine("100644", "000000", Zeros(7), Zeros(7), "D", <<>>, <<"void.txt">>)

ChangeLines ==
    {AddLine, DeleteLine, ModifyLine, RenameLine, CopyLine, TypeLine, UnmergedLine,
     UnknownLine, UnresolvedLine, BrokenLine, UnknownUnresolvedLine, DeleteNullLine}

GitChangeLineKinds == {Marker("c1"), <<>>} \cup ChangeLines

PmChangeLineKinds == {<<"{">>, <<"/C01/", "c1">>, <<"/W12/">>, <<>>} \cup ChangeLines

InitChanges ==
    /\ \/ ximpl = "Git" /\ xlines \in SeqsUpTo(GitChangeLineKinds, MaxChangeLines) /\ xpc = "loop"
       \/ ximpl = "prometrics" /\ xlines \in SeqsUpTo(PmChangeLineKinds, MaxChangeLines) /\ xpc = "open"
    /\ xidx = 0
    /\ state = CH_ST_START
    /\ commit = None
    /\ changes = <<>>
    /\ xerr = NoErr
    /\ cmd = IF ximpl = "Git" THEN git_cmd_prefix \o <<"whatchanged">> ELSE <<"git", "--git-dir", "whatchanged">>
    /\ out = Terminated(xlines)
    /\ code \in {0, 1}
    /\ stderr = IF code = 0 THEN <<>> ELSE <<"fatal: bad object", EOL>>
    /\ pos = Len(out)
    /\ reads = <<>>
    /\ buf = <<>>
    /\ yielded = IF ximpl = "Git" THEN xlines ELSE <<>>
    /\ pc = IF ximpl = "Git" THEN "done" ELSE "start"
    /\ err = IF code # 0 /\ pc = "done" THEN raise_git_error(cmd, code, stderr) ELSE NoErr
    /\ waited = TRUE
    /\ abandoned = FALSE
    /\ IdleResolver
    /\ IdleCommits
    /\ IdleStats
    /\ IdleReport
    /\ IdleJoin
    /\ IdleDriver

NextChanges ==
    \/ (GitChangesLine /\ UNCHANGED nonChangeVars)
    \/ (GitChangesEnd /\ UNCHANGED nonChangeVars)
    \/ (PmChangesOpen /\ UNCHANGED nonChangeVars)
    \/ (PmChangesLine /\ UNCHANGED nonChangeVars)
    \/ (PmChangesEnd /\ UNCHANGED nonChangeVars)

SpecChanges == InitChanges /\ [][NextChanges]_vars

\* a line of the numstat format
StatLine(add, rm, fname) == add \o <<"\t">> \o rm \o <<"\t">> \o fname

Max(a, b) == IF a > b THEN a ELSE b

\* the number of leading elements p and q share
CommonPrefixLen(p, q) ==
    CHOOSE n \in 0..Min(Len(p), Len(q)) :
        /\ SubSeq(p, 1, n) = SubSeq(q, 1, n)
        /\ n < Min(Len(p), Len(q)) => p[n + 1] # q[n + 1]

\* the compact notation git log --numstat prints for a rename of p to q: the
\* directories the two paths start with and the components they end with
\* are written once, around {old => new}
Compact(p, q) ==
    LET n == CommonPrefixLen(p, q)
        slashes == {i \in 1..n : p[i] = "/"}
        pfx == IF slashes = {} THEN 0 ELSE CHOOSE i \in slashes : \A j \in slashes : j <= i
        adj == IF pfx > 0 THEN 1 ELSE 0
        room == Min(Len(p), Len(q)) - (pfx - adj)
        tails == {m \in 1..room :
                    /\ SubSeq(p, Len(p) - m + 1, Len(p)) = SubSeq(q, Len(q) - m + 1, Len(q))
                    /\ p[Len(p) - m + 1] = "/"}
        sfx == IF tails = {} THEN 0 ELSE CHOOSE m \in tails : \A j \in tails : j <= m
        a_mid == SubSeq(p, pfx + 1, Max(Len(p) - sfx, pfx))
        b_mid == SubSeq(q, pfx + 1, Max(Len(q) - sfx, pfx))
    IN IF pfx + sfx = 0 THEN p \o Arrow \o q
       ELSE SubSeq(p, 1, pfx) \o <<"{">> \o a_mid \o Arrow \o b_mid \o <<"}">>
                \o SubSeq(p, Len(p) - sfx + 1, Len(p))

\* renames: inside a directory, of a whole path, and out of a directory
Renames ==
    {<<<<"a", "/", "old", "/", "b">>, <<"a", "/", "new", "/", "b">>>>,
     <<<<"old">>, <<"new">>>>,
     <<<<"a", "/", "b", "/", "c">>, <<"a", "/", "c">>>>}

RenameStatLines == {StatLine(<<"0">>, <<"0">>, Compact(r[1], r[2])) : r \in Renames}

PlainStatLine == StatLine(<<"3">>, <<"1", "2">>, <<"src", "/", "a.py">>)
BinaryStatLine == StatLine(<<"-">>, <<"-">>, <<"img.png">>)
EmptyCountLine == StatLine(<<"4">>, <<>>, <<"e.txt">>)
NegativeCountLine == StatLine(<<"-", "5">>, <<"1">>, <<"n.txt">>)
TextCountLine == StatLine(<<"1">>, <<"x">>, <<"t.txt">>)
ShortStatLine == <<"3", "\t", "f.txt">>
BracesStatLine == StatLine(<<"1">>, <<"1">>, <<"{", "x", "}">>)

StatLines ==
    {PlainStatLine, BinaryStatLine, EmptyCountLine, NegativeCountLine, TextCountLine,
     ShortStatLine, BracesStatLine} \cup RenameStatLines

GitStatLineKinds == {Marker("c1"), Marker("c2"), <<>>} \cup StatLines

PmStatLineKinds == {<<"{">>, <<"/C01/", "c1">>, <<"/P12/">>, <<>>} \cup StatLines

InitStats ==
    /\ \/ simpl = "Git" /\ slines \in SeqsUpTo(GitStatLineKinds, MaxStatLines) /\ spc = "loop"
       \/ simpl = "prometrics" /\ slines \in SeqsUpTo(PmStatLineKinds, MaxStatLines) /\ spc = "open"
    /\ sidx = 0
    /\ sstate = STAT_ST_START
    /\ scommit = Unbound
    /\ s_src_file = Unbound
    /\ s_dst_file = Unbound
    /\ stats = <<>>
    /\ serr = NoErr
    /\ cmd = IF simpl = "Git" THEN git_cmd_prefix \o <<"log">> ELSE <<"git", "--git-dir", "log">>
    /\ out = Terminated(slines)
    /\ code \in {0, 1}
    /\ stderr = IF code = 0 THEN <<>> ELSE <<"fatal: bad object", EOL>>
    /\ pos = Len(out)
    /\ reads = <<>>
    /\ buf = <<>>
    /\ yielded = IF simpl = "Git" THEN slines ELSE <<>>
    /\ pc = IF simpl = "Git" THEN "done" ELSE "start"
    /\ err = IF code # 0 /\ pc = "done" THEN raise_git_error(cmd, code, stderr) ELSE NoErr
    /\ waited = TRUE
    /\ abandoned = FALSE
    /\ IdleResolver
    /\ IdleCommits
    /\ IdleChanges
    /\ IdleReport
    /\ IdleJoin
    /\ IdleDriver

NextStats ==
    \/ (GitStatsLine /\ UNCHANGED nonStatVars)
    \/ (GitStatsEnd /\ UNCHANGED nonStatVars)
    \/ (PmStatsOpen /\ UNCHANGED nonStatVars)
    \/ (PmStatsLine /\ UNCHANGED nonStatVars)
    \/ (PmStatsEnd /\ UNCHANGED nonStatVars)

SpecStats == InitStats /\ [][NextStats]_vars

\* a commit as the report makers read it
ReportCommit(an, ae, ad, cn, ce, cd) ==
    [author_name |-> an, author_email |-> ae, author_date |-> ad,
     commiter_name |-> cn, commiter_email |-> ce, commiter_date |-> cd]

ByAlice(d) == ReportCommit("Alice", "a@x.com", d, "Alice", "a@x.com", d)
ByAli(d) == ReportCommit("ali", "a@x.com", d, "ali", "a@x.com", d)
ByBob(d) == ReportCommit("Bob", "b@y.com", d, "Bob", "b@y.com", d)

\* commits at the day offsets 0, 7 and 19 of the first, one on the day
\* after the first, one applied by another person ten days after it was
\* written, and one much later
ReportCommits ==
    {ByAlice(DT(0, 10)), ByBob(DT(1, 10)), ByAli(DT(7, 23)), ByBob(DT(19, 23)),
     ReportCommit("Bob", "b@y.com", DT(3, 5), "Alice", "a@x.com", DT(13, 0)),
     ByAlice(DT(100, 9))}

\* a history in which a@x.com is Alice five times and ali once, and b@y.com
\* is Bob three times
NamedHistory ==
    <<ByAlice(DT(0, 10)), ByBob(DT(1, 9)), ByAlice(DT(2, 10)), ByAli(DT(3, 11)),
      ByAlice(DT(4, 10)), ByBob(DT(5, 9)), ByAlice(DT(6, 10)), ByBob(DT(8, 9)),
      ByAlice(DT(9, 10))>>

\* the clock: half a day after day 20, and the day after the last commit
Clocks == {DT(20, 12), DT(101, 0)}

InitReport ==
    /\ aimpl \in {"to_html5", "info2html5"}
    /\ commits \in SeqsUpTo(ReportCommits, MaxCommits) \cup {NamedHistory}
    /\ now \in {c \in Clocks : \A i \in 1..Len(commits) : commits[i].commiter_date <= c}
    /\ apc = "open"
    /\ NewReport
    /\ cmd = <<>>
    /\ out = <<>>
    /\ code = 0
    /\ stderr = <<>>
    /\ NewReader
    /\ IdleResolver
    /\ IdleCommits
    /\ IdleChanges
    /\ IdleStats
    /\ IdleJoin
    /\ IdleDriver

NextReport ==
    \/ (ToHtml5Open /\ UNCHANGED nonReportVars)
    \/ (ToHtml5Commit /\ UNCHANGED nonReportVars)
    \/ (ToHtml5Authors /\ UNCHANGED nonReportVars)
    \/ (Info2Html5Open /\ UNCHANGED nonReportVars)
    \/ (Info2Html5Inactive /\ UNCHANGED nonReportVars)
    \/ (Info2Html5Week /\ UNCHANGED nonReportVars)
    \/ (Info2Html5WeekEnd /\ UNCHANGED nonReportVars)
    \/ (Info2Html5Histograms /\ UNCHANGED nonReportVars)
    \/ (Info2Html5Authors /\ UNCHANGED nonReportVars)
    \/ (Info2Html5Filters /\ UNCHANGED nonReportVars)

SpecReport == InitReport /\ [][NextReport]_vars

\* what one commit did to one file: the line of the raw format and the line
\* of the numstat format that the log prints for it
Event(c, raw, numstat) == [commit |-> <<c>>, raw |-> raw, numstat |-> numstat]

\* a history in the order of the log: in c2 a is modified and c is renamed
\* to d; in c1 a is modified, a is copied to b, and c is added
EventLog ==
    <<Event("c2", RawLine("100644", "100644", Short2, Short1, "M", <<>>, <<"a">>),
            StatLine(<<"7">>, <<"1">>, <<"a">>)),
      Event("c2", RawLine("100644", "100644", Short1, Short1, "R", <<"86">>, <<"c", "\t", "d">>),
            StatLine(<<"0">>, <<"0">>, Compact(<<"c">>, <<"d">>))),
      Event("c1", RawLine("100644", "100644", Short1, Short2, "M", <<>>, <<"a">>),
            StatLine(<<"1">>, <<"2">>, <<"a">>)),
      Event("c1", RawLine("100644", "100644", Short1, Short1, "C", <<"100">>, <<"a", "\t", "b">>),
            StatLine(<<"3">>, <<"0">>, Compact(<<"a">>, <<"b">>))),
      Event("c1", RawLine("000000", "100644", Zeros(7), Short1, "A", <<>>, <<"c">>),
            StatLine(<<"5">>, <<"0">>, <<"c">>))>>

\* the events of the log at the places S, in the order of the log
RECURSIVE EventsAt(_)
EventsAt(S) ==
    IF S = {} THEN <<>>
    ELSE LET k == CHOOSE x \in S : \A y \in S : y <= x
         IN Append(EventsAt(S \ {k}), EventLog[k])

InitJoin ==
    /\ jimpl \in {"get_all_info", "to_html5"}
    /\ history \in {EventsAt(S) : S \in {T \in SUBSET (1..Len(EventLog)) : Cardinality(T) <= MaxEvents}}
    /\ jpc = "open"
    /\ NewJoin
    /\ cmd = <<>>
    /\ out = <<>>
    /\ code = 0
    /\ stderr = <<>>
    /\ NewReader
    /\ IdleResolver
    /\ IdleCommits
    /\ IdleChanges
    /\ IdleStats
    /\ IdleReport
    /\ IdleDriver

NextJoin ==
    \/ (InfoChanges /\ UNCHANGED nonJoinVars)
    \/ (InfoStats /\ UNCHANGED nonJoinVars)
    \/ (InfoVerify /\ UNCHANGED nonJoinVars)
    \/ (InfoReturn /\ UNCHANGED nonJoinVars)
    \/ (ToHtml5Query /\ UNCHANGED nonJoinVars)
    \/ (ToHtml5Stats /\ UNCHANGED nonJoinVars)
    \/ (ToHtml5Changes /\ UNCHANGED nonJoinVars)
    \/ (ToHtml5Totals /\ UNCHANGED nonJoinVars)

SpecJoin == InitJoin /\ [][NextJoin]_vars

\* what the calls on a branch do: the switch succeeds or raises GitError;
\* to_html5 returns, or raises ReportError (a template error), an error of
\* a git child, GitFormatError of Git.commits, or ValueError (no commit)
BranchRuns(name) ==
    {[name |-> name, switch |-> "GitError", report |-> "ok"]}
        \cup {[name |-> name, switch |-> "ok", report |-> r] :
                r \in {"ok", "ReportError", "GitCmdError", "GitFormatError", "ValueError"}}

BranchNames == <<"master", "dev", "b3", "b4">>

\* the repositories of n branches
RECURSIVE BranchesOf(_)
BranchesOf(n) ==
    IF n = 0 THEN {<<>>}
    ELSE {Append(bs, b) : bs \in BranchesOf(n - 1), b \in BranchRuns(BranchNames[n])}

InitDriver ==
    /\ repo \in [clone : {"ok", "GitError"}, clean : {"ok", "GitError"},
                 branches : UNION {BranchesOf(n) : n \in 0..MaxBranches}]
    /\ dpc = "open"
    /\ tmp_dir \in {"absent", "present"}
    /\ NewDriver
    /\ cmd = <<>>
    /\ out = <<>>
    /\ code = 0
    /\ stderr = <<>>
    /\ NewReader
    /\ IdleResolver
    /\ IdleCommits
    /\ IdleChanges
    /\ IdleStats
    /\ IdleReport
    /\ IdleJoin

NextDriver ==
    \/ (DriverOpen /\ UNCHANGED nonDriverVars)
    \/ (DriverSwitch /\ UNCHANGED nonDriverVars)
    \/ (DriverReport /\ UNCHANGED nonDriverVars)
    \/ (DriverWrite /\ UNCHANGED nonDriverVars)
    \/ (DriverFinally /\ UNCHANGED nonDriverVars)

SpecDriver == InitDriver /\ [][NextDriver]_vars

(* ------------------------- claims on git_cmd --------------------------- *)

\* the whole output split on newline, the newline removed, and no empty
\* last line for an output that ends with a newline (or is empty)
Lines(s) ==
    LET parts == split(decode(s), EOL)
    IN IF Last(parts) = <<>> THEN Front(parts) ELSE parts

IsPrefix(s, t) == Len(s) <= Len(t) /\ SubSeq(t, 1, Len(s)) = s

\* C1: whatever the output and however it is cut into reads, git_cmd yields
\* the lines of the whole output, in order: always a prefix of them, and all
\* of them once a consumer has exhausted the sequence.
C1_LinesOfOutput ==
    /\ IsPrefix(yielded, Lines(out))
    /\ (pc \in {"finally", "done"} /\ ~abandoned) => yielded = Lines(out)

\* an output with an empty line inside and an unterminated tail, read in
\* several chunks of which one ends in the middle of a line
C1_Witness ==
    /\ pc = "done"
    /\ ~abandoned
    /\ out = <<"a", EOL, EOL, "a">>
    /\ reads = <<1, 2, 1, 0>>
    /\ yielded = <<<<"a">>, <<>>, <<"a">>>>

\* C2: an exhausted sequence ends with a wait for the child and an error if
\* and only if the exit status is not zero; the error comes after every line
\* and carries the standard-error text of the child.
C2_ErrorAfterLines ==
    (pc = "done" /\ ~abandoned) =>
        /\ waited
        /\ (err # NoErr) <=> (code # 0)
        /\ err # NoErr =>
            /\ yielded = Lines(out)
            /\ "stderr" \in DOMAIN err
            /\ err.stderr = stderr

(* ----------------------- claims on the resolvers ----------------------- *)

ResolveEnded == rpc \in {"returned", "raised"}

AllZeroShort(s) == Len(s) >= 7 /\ \A i \in 1..Len(s) : s[i] = "0"

\* C3: a run of seven or more zeros resolves to the sentinel of forty zeros
\* with no child process started; any other input costs exactly one
\* rev-parse query, whose trimmed output is the result.
C3_SentinelWithoutQuery ==
    ResolveEnded =>
        /\ AllZeroShort(short) => (rpc = "returned" /\ res = NULL_HASH /\ queries = 0)
        /\ ~AllZeroShort(short) =>
            /\ queries = 1
            /\ rpc = "returned" => res = strip(out)

\* C4: a failed query of Git.short2long_hash ends in UnreachableObject when
\* git reports that the name is no single revision and in the generic
\* GitCmdError otherwise; no value is returned.
C4_FailureKinds ==
    (ResolveEnded /\ impl = "Git" /\ ~AllZeroShort(short) /\ code # 0) =>
        /\ rpc = "raised"
        /\ res = None
        /\ rerr.type = IF stderr = <<"fatal: ">> \o NeededSingleRevision
                       THEN "UnreachableObject"
                       ELSE "GitCmdError"

C4_Witness ==
    /\ rpc = "raised"
    /\ impl = "Git"
    /\ short = <<"a", "b", "c", "1", "2", "3", "4">>
    /\ queries = 1
    /\ rerr = UnreachableObject(short)

(* ---------------------- claims on Git.commits --------------------------- *)

\* the positions of the stream at which the parser awaits a header: the
\* first line, and every line that starts with the sentinel
IsHeaderPos(ls, k) == k = 1 \/ (ls[k] # <<>> /\ ls[k][1] = NUL)

HeaderPositions(ls, n) == {k \in 1..n : IsHeaderPos(ls, k)}

FieldCount(l) == Len(split(l, NUL))

\* C5: a line at a header position that does not split on the sentinel
\* into exactly 12 fields ends the parse with GitFormatError, and no Commit
\* is emitted for it: the commits emitted are those of earlier headers.
C5_MalformedHeaderFails ==
    \A k \in 1..cidx :
        (IsHeaderPos(clines, k) /\ FieldCount(clines[k]) # 12) =>
            /\ cpc = "failed"
            /\ cerr.type = "GitFormatError"
            /\ cidx = k
            /\ Len(emitted) <= Cardinality(HeaderPositions(clines, k - 1))

\* a 13-field line met in a body, after the commit before it was emitted
C5_Witness ==
    /\ cpc = "failed"
    /\ cerr.type = "GitFormatError"
    /\ cidx = 3
    /\ FieldCount(clines[3]) = 13
    /\ Len(emitted) = 1

\* every line at a header position is a 12-field header
WellFormedStream(ls) ==
    \A k \in 1..Len(ls) : IsHeaderPos(ls, k) => (ls[k] # <<>> /\ ls[k][1] = NUL /\ FieldCount(ls[k]) = 12)

\* the lines that follow the header at k, up to the next header
RECURSIVE BodyOf(_, _)
BodyOf(ls, k) ==
    IF k + 1 > Len(ls) \/ IsHeaderPos(ls, k + 1) THEN <<>>
    ELSE <<ls[k + 1]>> \o BodyOf(ls, k + 1)

\* the commit e has the eight text fields of the header at k and its body
FromHeader(e, ls, k) ==
    LET f == split(ls[k], NUL)
    IN /\ e.hash = f[2]
       /\ e.tree = f[3]
       /\ e.parent = f[4]
       /\ e.author_name = f[5]
       /\ e.author_email = f[6]
       /\ e.commiter_name = f[8]
       /\ e.commiter_email = f[9]
       /\ e.subject = f[11]
       /\ e.text = join(EOL, BodyOf(ls, k))

\* C6: in a stream of well-formed headers and message lines, every Commit
\* emitted has the text fields of a header of the stream verbatim, and as
\* body the lines between that header and the next, joined with newline.
C6_FieldsVerbatim ==
    WellFormedStream(clines) =>
        \A i \in 1..Len(emitted) :
            \E k \in HeaderPositions(clines, cidx) : FromHeader(emitted[i], clines, k)

\* a commit emitted with a body of two lines, one of them blank
C6_Witness ==
    /\ cpc = "done"
    /\ clines = <<Header("c1", Date1, Date1), <<"fix", " ", "bug">>, <<>>, Header("c2", Date2, Date3)>>
    /\ Len(emitted) = 2
    /\ emitted[1].text = <<"fix", " ", "bug", EOL>>
    /\ emitted[2].text = <<>>

\* C7: every Commit emitted has an author date and a commiter date.
C7_DatesNeverNull ==
    \A i \in 1..Len(emitted) :
        /\ emitted[i].author_date # None
        /\ emitted[i].commiter_date # None

\* commits of headers without dates have been emitted
C7_Witness ==
    /\ \E i \in 1..Len(emitted) : emitted[i].hash = <<"c3">>
    /\ \E i \in 1..Len(emitted) : emitted[i].hash = <<"c4">>

HashAt(ls, k) == split(ls[k], NUL)[2]

DistinctHashes(ls) ==
    \A j, k \in HeaderPositions(ls, Len(ls)) : j # k => HashAt(ls, j) # HashAt(ls, k)

HasNoDate(l) == split(l, NUL)[7] = <<>> \/ split(l, NUL)[10] = <<>>

EmittedAt(h) == CHOOSE i \in 1..Len(emitted) : emitted[i].hash = h

\* the first header with both dates after position j, or 0
NextGood(ls, j) ==
    LET later == {g \in HeaderPositions(ls, Len(ls)) : g > j /\ ~HasNoDate(ls[g])}
    IN IF later = {} THEN 0 ELSE CHOOSE g \in later : \A g2 \in later : g <= g2

\* C8: a commit without dates is emitted before the next commit with dates
\* of the stream, its missing dates filled from the dates of that commit.
C8_BackfillFromNextGood ==
    (cpc = "done" /\ WellFormedStream(clines) /\ DistinctHashes(clines)) =>
        \A j \in HeaderPositions(clines, Len(clines)) :
            (HasNoDate(clines[j]) /\ NextGood(clines, j) # 0) =>
                LET g == NextGood(clines, j)
                    f == split(clines[j], NUL)
                IN /\ \E i \in 1..Len(emitted) : emitted[i].hash = HashAt(clines, j)
                   /\ EmittedAt(HashAt(clines, j)) < EmittedAt(HashAt(clines, g))
                   /\ f[7] = <<>> =>
                        emitted[EmittedAt(HashAt(clines, j))].author_date
                            = emitted[EmittedAt(HashAt(clines, g))].author_date
                   /\ f[10] = <<>> =>
                        emitted[EmittedAt(HashAt(clines, j))].commiter_date
                            = emitted[EmittedAt(HashAt(clines, g))].commiter_date

(* -------------------- claims on the change parsers --------------------- *)

StatusLetters == {"A", "C", "D", "M", "R", "T", "U"}

\* a line of five or more space-separated fields that is no marker
IsChangeLine(l) == l # <<>> /\ l[1] # NUL /\ Len(split(l, " ")) >= 5

\* the status-and-path segment of a change line: what follows the fourth space
SegmentOf(l) == join(" ", SubSeq(split(l, " "), 5, Len(split(l, " "))))

LetterOf(l) == SegmentOf(l)[1]

\* the numeric suffix of the status letter, or None
SuffixOf(l) ==
    LET suffix == partition_head(SliceFrom(SegmentOf(l), 1), "\t")
    IN IF suffix = <<>> THEN None ELSE suffix

PathsOf(l) == split(partition_tail(SegmentOf(l), "\t"), "\t")

RECURSIVE SelectIdx(_, _, _)
\* the positions k <= n of ls, in order, whose line has a status letter of the closed set
SelectIdx(ls, n, k) ==
    IF k > n THEN <<>>
    ELSE (IF IsChangeLine(ls[k]) /\ LetterOf(ls[k]) \in StatusLetters THEN <<k>> ELSE <<>>)
            \o SelectIdx(ls, n, k + 1)

\* C9: while Git.changes has not failed, it has emitted one Change for each
\* line read whose status letter is one of A, C, D, M, R, T, U, with that
\* letter as status and the numeric suffix of the letter, if any, as
\* similarity percentage.
C9_StatusAndScore ==
    (ximpl = "Git" /\ xpc \in {"loop", "done"}) =>
        LET idx == SelectIdx(xlines, xidx, 1)
        IN /\ Len(changes) = Len(idx)
           /\ \A i \in 1..Len(idx) :
                /\ changes[i].status = LetterOf(xlines[idx[i]])
                /\ changes[i].percentage = SuffixOf(xlines[idx[i]])

\* the path shape of a Change of the given status for the paths of a line
PathShape(ch, letter, paths) ==
    IF letter = "A" THEN ch.src_file = None /\ ch.dst_file = paths[1]
    ELSE IF letter = "D" THEN ch.src_file = paths[1] /\ ch.dst_file = None
    ELSE IF letter \in {"M", "T"} THEN ch.src_file = paths[1] /\ ch.dst_file = paths[1]
    ELSE IF letter \in {"R", "C", "U"}
    THEN ch.src_file = paths[1] /\ (Len(paths) >= 2 => ch.dst_file = paths[2])
    ELSE TRUE

\* C10: every Change emitted, by Git.changes or by get_all_changes, comes
\* from a line read with its status, and has the path shape of that status.
C10_PathShape ==
    \A i \in 1..Len(changes) :
        \E k \in 1..xidx :
            /\ IsChangeLine(xlines[k])
            /\ LetterOf(xlines[k]) = changes[i].status
            /\ PathShape(changes[i], changes[i].status, PathsOf(xlines[k]))

\* the parse has failed on the line it read last
LineFailed ==
    /\ xpc = "failed"
    /\ xidx >= 1
    /\ ximpl = "Git" => xerr.type # "GitCmdError"
    /\ ximpl = "prometrics" => state = CH_ST_NEXT_CHANGE

\* the frame of the streams of prometrics.py: after n lines the parser
\* awaits an opening brace (1), the line of the commit (2) or a record (3);
\* the lines of closes end the records of a commit
RECURSIVE FrameState(_, _, _)
FrameState(ls, n, closes) ==
    IF n = 0 THEN 1
    ELSE LET before == FrameState(ls, n - 1, closes)
             l == strip(ls[n])
         IN IF before = 1 THEN (IF l = <<"{">> THEN 2 ELSE 1)
            ELSE IF before = 2 THEN (IF startswith(l, <<"/C01/">>) THEN 3 ELSE 2)
            ELSE IF l \in closes THEN 1 ELSE 3

\* the line at k was read as a change line
ReadAsChange(k) ==
    /\ k <= xidx
    /\ IsChangeLine(xlines[k])
    /\ ximpl = "prometrics" => FrameState(xlines, k - 1, {<<>>}) = 3

\* C11: a change line whose status letter is none of A, C, D, M, R, T, U
\* gives no Change and no error, and the parse goes on after it.
C11_UnknownStatusSkipped ==
    /\ \A i \in 1..Len(changes) : changes[i].status \in StatusLetters
    /\ LineFailed =>
        ~(ReadAsChange(xidx) /\ LetterOf(xlines[xidx]) \notin StatusLetters)

\* the abbreviated source name of a change line
SrcShortOf(l) == rstrip(split(l, " ")[3], {"."})

\* C12: Git.changes answers a Delete line with a Change that has no
\* destination path and a source hash that is not the sentinel, or, when
\* the source name of the line is the sentinel, with GitFormatError.
C12_DeleteHasSource ==
    ximpl = "Git" =>
        \A k \in 1..xidx :
            (IsChangeLine(xlines[k]) /\ LetterOf(xlines[k]) = STATUS_DELETE) =>
                IF is_null_short(SrcShortOf(xlines[k]))
                THEN /\ xpc = "failed"
                     /\ xidx = k
                     /\ xerr.type = "GitFormatError"
                ELSE \/ xpc = "failed" /\ xidx = k
                     \/ \E i \in 1..Len(changes) :
                            /\ changes[i].status = STATUS_DELETE
                            /\ changes[i].dst_file = None
                            /\ changes[i].src_file = PathsOf(xlines[k])[1]
                            /\ changes[i].src_hash # NULL_HASH

(* ---------------------- claims on the stat parsers --------------------- *)

\* the positions k <= n at which a stat parser reads a record
StatPositions(n) ==
    IF simpl = "Git"
    THEN {k \in 1..n : slines[k] # <<>> /\ slines[k][1] # NUL}
    ELSE {k \in 1..n :
            /\ FrameState(slines, k - 1, {<<>>, <<"{">>}) = 3
            /\ strip(slines[k]) \notin {<<"/P12/">>, <<>>, <<"{">>}}

\* the i-th smallest element of a set of numbers
NthOf(S, i) == CHOOSE k \in S : Cardinality({j \in S : j <= k}) = i

\* the record from which the i-th Stat was made, as the parser split it
StatFieldsAt(i) ==
    LET l == slines[NthOf(StatPositions(sidx), i)]
    IN split(IF simpl = "prometrics" THEN strip(l) ELSE l, "\t")

\* every record read so far has given a Stat, but for the one a parse failed on
StatsInStep ==
    /\ Len(stats) <= Cardinality(StatPositions(sidx))
    /\ spc # "failed" => Len(stats) = Cardinality(StatPositions(sidx))

\* f is prefix{old => new}suffix
BraceForm(f) ==
    /\ find(f, "{") >= 0
    /\ find(f, "}") > find(f, "{")
    /\ find_str(Slice(f, find(f, "{") + 1, find(f, "}")), Arrow) >= 0

NoBraces(f) == find(f, "{") < 0 /\ find(f, "}") < 0

\* prefix+old+suffix and prefix+new+suffix of a path of the brace form
Reconstructed(f) ==
    LET prefix == Slice(f, 0, find(f, "{"))
        suffix == SliceFrom(f, find(f, "}") + 1)
        inner == Slice(f, find(f, "{") + 1, find(f, "}"))
        old == Slice(inner, 0, find_str(inner, Arrow))
        new == SliceFrom(inner, find_str(inner, Arrow) + Len(Arrow))
    IN <<prefix \o old \o suffix, prefix \o new \o suffix>>

\* C13: the Stat of a path prefix{old => new}suffix has the source
\* prefix+old+suffix and the destination prefix+new+suffix, and the Stat of
\* a path without braces has the path, unchanged, as both.
C13_RenameReconstruction ==
    /\ StatsInStep
    /\ \A i \in 1..Len(stats) :
        LET f == StatFieldsAt(i)[3]
        IN /\ BraceForm(f) =>
                <<stats[i].src_file, stats[i].dst_file>> = Reconstructed(f)
           /\ NoBraces(f) =>
                /\ stats[i].src_file = f
                /\ stats[i].dst_file = f

\* the number a decimal numeral writes
RECURSIVE Pow10(_)
Pow10(n) == IF n = 0 THEN 1 ELSE 10 * Pow10(n - 1)

DigitTable ==
    [d \in Digits |->
        CASE d = "0" -> 0 [] d = "1" -> 1 [] d = "2" -> 2 [] d = "3" -> 3 [] d = "4" -> 4
          [] d = "5" -> 5 [] d = "6" -> 6 [] d = "7" -> 7 [] d = "8" -> 8 [] d = "9" -> 9]

RECURSIVE DecimalValue(_)
DecimalValue(s) ==
    IF s = <<>> THEN 0
    ELSE DigitTable[Head(s)] * Pow10(Len(s) - 1) + DecimalValue(Tail(s))

IsDecimal(s) == s # <<>> /\ \A i \in 1..Len(s) : s[i] \in Digits

\* the count a Stat must have for a field that is a decimal numeral or "-"
CountAgrees(n, field) ==
    /\ n >= 0
    /\ IsDecimal(field) => n = DecimalValue(field)
    /\ field = <<"-">> => n = 0

\* C14: every Stat emitted, by Git.stats or by get_all_stats, has counts
\* that are not negative: the value of a decimal field, and 0 for the
\* placeholder "-" of a binary file.
C14_CountsOfStat ==
    /\ StatsInStep
    /\ \A i \in 1..Len(stats) :
        /\ CountAgrees(stats[i].add, StatFieldsAt(i)[1])
        /\ CountAgrees(stats[i].rm, StatFieldsAt(i)[2])

\* a Stat of a binary file with (0, 0) and a Stat with the counts 3 and 12
C14_Witness ==
    /\ spc = "done"
    /\ \E i \in 1..Len(stats) :
        /\ StatFieldsAt(i)[1] = <<"-">>
        /\ StatFieldsAt(i)[2] = <<"-">>
        /\ stats[i].add = 0
        /\ stats[i].rm = 0
    /\ \E i \in 1..Len(stats) :
        /\ StatFieldsAt(i)[2] = <<"1", "2">>
        /\ stats[i].add = 3
        /\ stats[i].rm = 12

\* C15: a record whose added or removed field is neither a decimal numeral
\* nor "-" ends the parse with an error; no Stat is made of it.
C15_NoSilentDefault ==
    \A k \in StatPositions(sidx) :
        LET l == slines[k]
            f == split(IF simpl = "prometrics" THEN strip(l) ELSE l, "\t")
        IN (Len(f) = 3 /\ \E n \in 1..2 : ~IsDecimal(f[n]) /\ f[n] # <<"-">>) =>
            /\ spc = "failed"
            /\ sidx = k

\* the line of the raw format for a rename of p to q
RenameChangeLine(p, q) ==
    RawLine("100644", "100644", Short1, Short2, "R", <<"86">>, p \o <<"\t">> \o q)

\* what the change parser of the implementation at work makes of that line
ChangeOfRename(p, q, cmt) ==
    IF simpl = "Git" THEN git_change_of(RenameChangeLine(p, q), cmt)
    ELSE pm_change_of(RenameChangeLine(p, q), cmt)

\* C16: for a rename of P to Q, the Stat made of the compact notation of the
\* rename and the Change made of the line R<score> TAB P TAB Q, for the same
\* commit, have the same source path and the same destination path.
C16_RenamePathsAgree ==
    /\ StatsInStep
    /\ \A i \in 1..Len(stats) :
        \A r \in Renames :
            StatFieldsAt(i)[3] = Compact(r[1], r[2]) =>
                LET c == ChangeOfRename(r[1], r[2], stats[i].commit)
                IN /\ c.kind = "yield"
                   /\ c.change.src_file = stats[i].src_file
                   /\ c.change.dst_file = stats[i].dst_file

(* --------------------- claims on the report makers --------------------- *)

RECURSIVE SumOf(_)
SumOf(l) == IF l = <<>> THEN 0 ELSE Head(l) + SumOf(Tail(l))

\* C17: a report of a history that is not empty has an hour-of-day
\* histogram of 24 buckets and a weekday histogram of 7 buckets, and the
\* hourly, the weekday and the weekly histogram each sum to the number of
\* commits.
C17_HistogramSums ==
    apc = "done" =>
        /\ commits # <<>>
        /\ Len(hours) = 24
        /\ Len(week_days) = 7
        /\ SumOf(hours) = Len(commits)
        /\ SumOf(week_days) = Len(commits)
        /\ SumOf(weeks) = Len(commits)

\* a report of three commits, two of them in one bucket of an histogram
C17_Witness ==
    /\ apc = "done"
    /\ Len(commits) = 3
    /\ \E h \in 1..24 : hours[h] = 2
    /\ \E d \in 1..7 : week_days[d] = 1

\* the day offset of the commiter date of commit i from the earliest one
DayOffset(cs, i) ==
    days(cs[i].commiter_date
            - (CHOOSE d \in {cs[j].commiter_date : j \in 1..Len(cs)} :
                \A j \in 1..Len(cs) : d <= cs[j].commiter_date))

\* one bucket per span of 7 days from the earliest commit to the latest
WeeklyOf(cs) ==
    LET spans == (CHOOSE m \in {DayOffset(cs, i) : i \in 1..Len(cs)} :
                    \A i \in 1..Len(cs) : DayOffset(cs, i) <= m) \div 7 + 1
    IN [k \in 1..spans |-> Cardinality({i \in 1..Len(cs) : DayOffset(cs, i) \div 7 = k - 1})]

\* C18: the weekly histogram has one bucket per span of 7 days from the
\* earliest commit, and bucket k counts the commits whose commiter date is
\* d days after the earliest with d div 7 = k; commits at the day offsets
\* 0, 7 and 19 give [1, 1, 1].
C18_WeeklyBuckets ==
    apc = "done" => weeks = WeeklyOf(commits)

\* the count of the names of an email that no other name exceeds
IsMajorityName(counts, n) ==
    /\ n \in DOMAIN counts
    /\ \A m \in DOMAIN counts : counts[m] <= counts[n]

\* the authors of a report as a sequence of (name, commits) in its order
AuthorsListed ==
    IF aimpl = "info2html5" THEN authors
    ELSE LET emails == DOMAIN authors
         IN CHOOSE l \in [1..Cardinality(emails) -> {[email |-> e, name |-> authors[e].name,
                                                       commits |-> authors[e].commits] : e \in emails}] :
                /\ \A e \in emails : \E i \in 1..Cardinality(emails) : l[i].email = e
                /\ \A i \in 1..(Cardinality(emails) - 1) : l[i].commits >= l[i + 1].commits

\* C19: the report has one author per author email, with the total of the
\* commits of the email and the name the email has most often; listed by
\* commit count, most first. For a@x.com with Alice 5 times and ali once and
\* b@y.com with Bob 3 times: Alice (6), then Bob (3).
C19_MajorityName ==
    apc = "done" =>
        LET counts == count_names(commits, "author_email", "author_name")
            l == AuthorsListed
        IN /\ {l[i].email : i \in 1..Len(l)} = DOMAIN counts
           /\ Len(l) = Cardinality(DOMAIN counts)
           /\ \A i \in 1..Len(l) :
                /\ l[i].commits = sum_values(counts[l[i].email])
                /\ IsMajorityName(counts[l[i].email], l[i].name)
           /\ \A i \in 1..(Len(l) - 1) : l[i].commits >= l[i + 1].commits

\* the date and the person of a commit that the windows of a maker look at
WindowDate(c) == IF aimpl = "to_html5" THEN c.author_date ELSE c.commiter_date

WindowPerson(c) == IF aimpl = "to_html5" THEN c.author_email ELSE c.commiter_email

\* the commits of the trailing n days that end at the time ref
Trailing(n, ref) ==
    {i \in 1..Len(commits) : WindowDate(commits[i]) <= ref /\ ref - WindowDate(commits[i]) <= DT(n, 0)}

LatestDate == CHOOSE d \in {WindowDate(commits[i]) : i \in 1..Len(commits)} :
                \A i \in 1..Len(commits) : WindowDate(commits[i]) <= d

\* what a maker reports for the window w: the number of commits, and the persons
WindowCommits(w) == IF aimpl = "to_html5" THEN Len(last_commits[w]) ELSE last_commits[w]

WindowPersons(w) == IF aimpl = "to_html5" THEN Cardinality(last_authors[w]) ELSE last_authors[w]

WindowsAt(ref) ==
    \A w \in Windows :
        /\ WindowCommits(w) = Cardinality(Trailing(w, ref))
        /\ WindowPersons(w) = Cardinality({WindowPerson(commits[i]) : i \in Trailing(w, ref)})

\* C20: the windows of 7, 30 and 90 days hold the commits, and the persons
\* of the commits, of the trailing 7, 30 and 90 days that end now or at the
\* latest commit; no older commit is counted.
C20_TrailingWindows ==
    apc = "done" => (WindowsAt(now) \/ WindowsAt(LatestDate))

\* the calendar day of a datetime
DayOf(dt) == dt \div 24

\* the calendar days from the first commit to the last on which no commit
\* was made, by the date the maker at hand looks at
EmptyDays ==
    LET ds == {DayOf(WindowDate(commits[i])) : i \in 1..Len(commits)}
        lo == CHOOSE d \in ds : \A e \in ds : d <= e
        hi == CHOOSE d \in ds : \A e \in ds : e <= d
    IN Cardinality((lo..hi) \ ds)

\* C21: the inactive days of a report are the calendar days between the
\* first and the last commit on which no commit was made; commits on
\* consecutive days give 0.
C21_InactiveDays ==
    apc = "done" => inactive_days = EmptyDays

(* ------------------- claims on abandoning git_cmd ---------------------- *)

\* the bytes of the output that the reads of the loop have taken
BytesRead == SumOf(reads)

\* C22: when the consumer closes the sequence before its end, the child is
\* stopped and the reader takes no further output of the child (it does not
\* wait for the rest of the output); an error of the closure, if any, is a
\* command failure, never a parse error.
C22_AbandonStopsChild ==
    abandoned =>
        /\ pos = BytesRead
        /\ err.type \in {"none", "GitCmdError", "UnreachableObject"}

(* ---------------------- claims on the aggregation ----------------------- *)

\* the Stats of the history with the commit and the two paths of the File f
StatsOfPair(f) ==
    LET sts == get_all_stats(history)
    IN {sts[i] : i \in {j \in 1..Len(sts) :
                            /\ sts[j].commit = f.commit
                            /\ sts[j].src_file = f.src_file
                            /\ sts[j].dst_file = f.dst_file}}

\* the File at place k of files is in the index
Indexed(k) ==
    \E c \in DOMAIN info_commits : \E sf \in DOMAIN info_commits[c] : info_commits[c][sf] = k

\* C23: after the join every File made of a Change is still in the index,
\* has the counts of the Stat of its commit with the same source path and
\* the same destination path, and has counts of no other Stat.
C23_JoinOnPathPairs ==
    (jimpl = "get_all_info" /\ jpc \in {"verify", "return", "done"}) =>
        \A k \in 1..Len(info_files) :
            LET f == info_files[k]
            IN /\ Indexed(k)
               /\ \A st \in StatsOfPair(f) : f.add = <<st.add>> /\ f.rm = <<st.rm>>
               /\ f.add # Unset =>
                    \E st \in StatsOfPair(f) : f.add = <<st.add>> /\ f.rm = <<st.rm>>

\* C24: an aggregation runs the query of the commits, the query of the
\* changes and the query of the stats at most once each; no aggregate, the
\* totals of added and removed lines included, reads the history again.
C24_SingleScan ==
    /\ calls.commits <= 1
    /\ calls.changes <= 1
    /\ calls.stats <= 1
    /\ calls.tree_commits + calls.changes_by_commit = 0

\* the bytes the reader holds: buf, and after the finally clause what
\* communicate() has returned, the output the loop had not read
Held == Len(buf) + (IF pc = "done" THEN Len(out) - BytesRead ELSE 0)

\* the line at the head of buf, the one the loop is putting together
LineInProgress == IF find(buf, EOL) < 0 THEN Len(buf) ELSE find(buf, EOL)

\* C25: at every point of a run, read to the end or abandoned, the reader
\* holds at most the line it is putting together and one chunk of BUFSIZE
\* bytes, never the whole rest of the output.
C25_BoundedMemory == Held <= LineInProgress + BUFSIZE

(* ------------------ claims on the commits emitted ---------------------- *)

\* C26: for a stream of well-formed headers, any of them without dates, the
\* parser emits exactly one Commit per header: none is dropped, none is
\* emitted twice.
C26_OneCommitPerHeader ==
    (cpc = "done" /\ WellFormedStream(clines) /\ DistinctHashes(clines)) =>
        /\ Len(emitted) = Cardinality(HeaderPositions(clines, Len(clines)))
        /\ \A k \in HeaderPositions(clines, Len(clines)) :
                \E i \in 1..Len(emitted) : emitted[i].hash = HashAt(clines, k)

\* C27: the Commits are emitted in the order of their headers in the
\* stream; commits buffered for want of a date come out first buffered,
\* first emitted.
C27_EmissionOrder ==
    (WellFormedStream(clines) /\ DistinctHashes(clines)) =>
        \A j, k \in HeaderPositions(clines, cidx) :
            (/\ j < k
             /\ \E i \in 1..Len(emitted) : emitted[i].hash = HashAt(clines, j)
             /\ \E i \in 1..Len(emitted) : emitted[i].hash = HashAt(clines, k))
                => EmittedAt(HashAt(clines, j)) < EmittedAt(HashAt(clines, k))

(* ------------------ claims on the commit of a record -------------------- *)

\* a marker line: NUL, a hash, NUL
IsMarker(l) == Len(l) = 3 /\ l[1] = NUL /\ l[3] = NUL

\* the hash of the nearest marker line before the line at k
NearestMarker(ls, k) ==
    ls[CHOOSE m \in 1..(k - 1) :
            /\ IsMarker(ls[m])
            /\ \A j \in (m + 1)..(k - 1) : ~IsMarker(ls[j])][2]

C29_CloneTerminates == (pos = Len(out)) ~> (pc = "done")

(* ---------------------- claims on the report driver --------------------- *)

\* the names of the branches of bs whose switch and whose report succeed
RECURSIVE Completed(_)
Completed(bs) ==
    IF bs = <<>> THEN <<>>
    ELSE IF Last(bs).switch = "ok" /\ Last(bs).report = "ok"
    THEN Append(Completed(Front(bs)), Last(bs).name)
    ELSE Completed(Front(bs))

\* C30: when the driver has cloned and cleaned the repository, an error of
\* the switch to a branch or of the report of a branch skips that branch
\* only: the driver ends with every branch processed and with branches.txt
\* listing the branches whose report completed, in the order of processing.
C30_FailedBranchSkipped ==
    (dpc = "done" /\ repo.clone = "ok" /\ repo.clean = "ok") =>
        /\ didx = Len(repo.branches)
        /\ derr = NoErr
        /\ IF Completed(repo.branches) = <<>>
           THEN branches_txt = NoFile
           ELSE branches_txt = Completed(repo.branches)

====
